---- MODULE Spec2Model ----
(***************************************************************************)
(* Geographic coordinate resolution of the MAGENTA metadata fetchers       *)
(* (scripts/01_magenta_fetch_mangrove.py, magenta_fetch_non_mangrove.py):  *)
(* the free-text coordinate extractor, the coordinate validator and the    *)
(* three-tier enrichment resolver fill_and_filter_geo.                     *)
(*                                                                         *)
(* Text is a sequence of one-character strings.  A cell of a data frame    *)
(* (or a Python value handed to a function) is a tagged record:            *)
(*   NaN, None, Num(v), Inf(sign), Str(chars).                             *)
(* Floats are fixed-point integers in units of 1/Scale; every decimal      *)
(* literal the model enumerates has at most FracDigits fractional digits,  *)
(* so the conversion is exact on them.                                     *)
(***************************************************************************)
EXTENDS Integers, Sequences, FiniteSets, TLC

VARIABLES
    pc,        \* position of the modelled call
    text,      \* argument of _extract_lat_lon_from_text
    shape,     \* how the enumerated argument was built (not read by the code)
    parsed,    \* value returned by _parse_ns_ew inside the extractor
    via,       \* which return statement of the extractor was taken
    result,    \* value returned by the extractor / the validator
    lat_in,    \* arguments of _valid_lat_lon
    lon_in,
    all_df,    \* the data frame of fill_and_filter_geo (sequence of rows)
    input_df,  \* the frame as it was handed to fill_and_filter_geo
    asked,     \* identifiers sent to the collaborators, per stage
    retries,   \* argument of run_cmd
    attempt,   \* loop counter i of run_cmd
    last,      \* exit code of the latest attempt of run_cmd
    calls,     \* exit codes of the invocations run_cmd made, in order
    ret,       \* value returned by run_cmd
    have_ed,   \* main: whether the EDirect tools were found
    fallback,  \* main: what sra_runinfo_fallback returned, if called
    fs,        \* main: the files of the metadata and output directories
    ena_paths, \* main: the files the ENA fetch returned
    sra_paths, \* main: the files the SRA fetch returned
    frames,    \* main: the tables read for unification
    overwrite, \* assembly: the --overwrite flag
    trim_dir,  \* assembly: whether the trimmed-reads directory exists
    pairs,     \* assembly: the (sample, R1, R2) tuples find_pairs returned
    outdirs,   \* assembly: the state of each <sample>_assembled directory
    outdirs0,  \* assembly: outdirs as it was when the script started
    pendientes, \* assembly: the samples to assemble, in order
    resultados, \* assembly: the results so far, in order
    resumen,   \* assembly: the rows of the summary CSV
    rc,        \* assembly: the value main returned
    raw_src,   \* quality control: whether the raw FASTQ directory exists
    have_fastqc,  \* quality control: whether fastqc is on the PATH
    have_multiqc, \* quality control: whether multiqc is on the PATH
    inputs,    \* quality control: how many raw FASTQ files were listed
    pos,       \* quality control: the next input file of the loop
    batch,     \* quality control: the batch being gathered
    in_flight, \* quality control: the external processes now running
    invoked,   \* quality control: the processes that have exited
    qrc,       \* quality control: the value main returned
    run_ids,   \* lookup call: the identifiers handed to the lookup
    chunk_arg, \* lookup call: its chunk_size argument
    enr_df,    \* lookup call: what the lookup sent and returned
    sample_dir,    \* find_pairs: the read files under the sample directory
    r1_candidates, \* find_pairs: the sorted R1 candidates
    r1_pos,    \* find_pairs: the next candidate of the loop
    used,      \* find_pairs: the files already given to a pair
    fpairs     \* find_pairs: the (sample, R1, R2) tuples gathered so far

\* the variables of the coordinate functions and of the resolver
geo == <<text, shape, parsed, via, result, lat_in, lon_in, all_df, input_df, asked>>
\* the variables of run_cmd
cmdv == <<retries, attempt, last, calls, ret>>
\* what the coordinate functions never write
\* the variables of main
mainv == <<have_ed, fallback, fs, ena_paths, sra_paths, frames>>
\* the variables of the assembly script
asmv == <<overwrite, trim_dir, pairs, outdirs, outdirs0, pendientes, resultados, resumen, rc>>
\* the variables of the quality-control script
qcv == <<raw_src, have_fastqc, have_multiqc, inputs, pos, batch, in_flight, invoked, qrc>>
\* the variables of one call of a lookup function
chv == <<run_ids, chunk_arg, enr_df>>
\* the variables of find_pairs
fpv == <<sample_dir, r1_candidates, r1_pos, used, fpairs>>
aux == <<cmdv, mainv, asmv, qcv, chv, fpv>>
vars == <<pc, geo, aux>>

Idle == <<>>
CmdIdle == retries = 0 /\ attempt = 0 /\ last = 0 /\ calls = Idle /\ ret = Idle
MainIdle ==
    /\ have_ed = FALSE /\ fallback = Idle /\ fs = Idle
    /\ ena_paths = Idle /\ sra_paths = Idle /\ frames = Idle
AsmIdle ==
    /\ overwrite = FALSE /\ trim_dir = FALSE /\ pairs = Idle
    /\ outdirs = Idle /\ outdirs0 = Idle
    /\ pendientes = Idle /\ resultados = Idle /\ resumen = Idle /\ rc = Idle
QcIdle ==
    /\ raw_src = FALSE /\ have_fastqc = FALSE /\ have_multiqc = FALSE
    /\ inputs = 0 /\ pos = 0 /\ batch = Idle
    /\ in_flight = Idle /\ invoked = Idle /\ qrc = Idle
ChIdle == run_ids = Idle /\ chunk_arg = 0 /\ enr_df = Idle
FpIdle ==
    /\ sample_dir = Idle /\ r1_candidates = Idle /\ r1_pos = 0
    /\ used = Idle /\ fpairs = Idle
AuxIdle == CmdIdle /\ MainIdle /\ AsmIdle /\ QcIdle /\ ChIdle /\ FpIdle

-----------------------------------------------------------------------------
(* Bounds *)

\* longest text enumerated exhaustively for the extractor
MaxLen == 4
\* longest cell string enumerated exhaustively for the validator
MaxCellLen == 2
\* most records in the frame handed to fill_and_filter_geo
MaxRecs == 2
\* most rows in the table one collaborator request returns
MaxRows == 2

FracDigits == MaxLen - 2
Scale == 10 ^ FracDigits

-----------------------------------------------------------------------------
(* Values *)

NaN == [t |-> "nan", v |-> 0, s |-> <<>>]
None == [t |-> "none", v |-> 0, s |-> <<>>]
Num(x) == [t |-> "num", v |-> x, s |-> <<>>]
Inf(sign) == [t |-> "inf", v |-> sign, s |-> <<>>]
Str(q) == [t |-> "str", v |-> 0, s |-> q]
\* a raised exception, as the outcome of an expression
Raise == [t |-> "raise", v |-> 0, s |-> <<>>]

Abs(x) == IF x < 0 THEN -x ELSE x

Digits == {"0", "1", "2", "3", "4", "5", "6", "7", "8", "9"}
DigitVal(c) ==
    CASE c = "0" -> 0 [] c = "1" -> 1 [] c = "2" -> 2 [] c = "3" -> 3
      [] c = "4" -> 4 [] c = "5" -> 5 [] c = "6" -> 6 [] c = "7" -> 7
      [] c = "8" -> 8 [] c = "9" -> 9
Signs == {"+", "-"}
HemiLetters == {"N", "n", "S", "s", "E", "e", "W", "w"}
Upper(c) ==
    CASE c = "n" -> "N" [] c = "s" -> "S" [] c = "e" -> "E" [] c = "w" -> "W"
      [] c = "i" -> "I" [] c = "f" -> "F" [] c = "a" -> "A"
      [] c = "t" -> "T" [] c = "y" -> "Y"
      [] c = "g" -> "G" [] c = "l" -> "L" [] c = "u" -> "U" [] c = "m" -> "M"
      [] OTHER -> c

\* str.strip(): leading and trailing whitespace removed
RECURSIVE LStrip(_)
LStrip(q) == IF q # <<>> /\ Head(q) = " " THEN LStrip(Tail(q)) ELSE q
RECURSIVE RStrip(_)
RStrip(q) ==
    IF q # <<>> /\ q[Len(q)] = " " THEN RStrip(SubSeq(q, 1, Len(q) - 1)) ELSE q
Strip(q) == RStrip(LStrip(q))

\* index after the run of digits that starts at i (i itself when s[i] is no digit)
RECURSIVE DigitsEnd(_, _)
DigitsEnd(q, i) ==
    IF i <= Len(q) /\ q[i] \in Digits THEN DigitsEnd(q, i + 1) ELSE i

\* value of a digit string, most significant digit first
RECURSIVE DigitsVal(_)
DigitsVal(q) ==
    IF q = <<>> THEN 0
    ELSE 10 * DigitsVal(SubSeq(q, 1, Len(q) - 1)) + DigitVal(q[Len(q)])

\* value of a fractional digit string in units of 1/Scale
FracVal(q) ==
    IF Len(q) <= FracDigits
    THEN DigitsVal(q) * 10 ^ (FracDigits - Len(q))
    ELSE DigitsVal(SubSeq(q, 1, FracDigits))

\* float(str): Python's float literal grammar over the model's characters
\* (whitespace stripped, optional sign, digits with an optional point on
\* either side, or the words inf / infinity / nan); anything else raises
\* ValueError.
FloatWord(up, neg) ==
    IF up = <<"I", "N", "F">> \/ up = <<"I", "N", "F", "I", "N", "I", "T", "Y">>
    THEN Inf(IF neg THEN -1 ELSE 1)
    ELSE IF up = <<"N", "A", "N">> THEN NaN
    ELSE Raise
FloatDecimal(b, neg, e1, hasPoint) ==
    LET e2 == IF hasPoint THEN DigitsEnd(b, e1 + 1) ELSE e1
        ip == SubSeq(b, 1, e1 - 1)
        fp == IF hasPoint THEN SubSeq(b, e1 + 1, e2 - 1) ELSE <<>>
        mag == DigitsVal(ip) * Scale + FracVal(fp)
    IN  IF e2 = Len(b) + 1 /\ (ip # <<>> \/ fp # <<>>)
        THEN Num(IF neg THEN -mag ELSE mag)
        ELSE FloatWord([i \in 1..Len(b) |-> Upper(b[i])], neg)
FloatUnsigned(b, neg) ==
    FloatDecimal(b, neg, DigitsEnd(b, 1),
                 DigitsEnd(b, 1) <= Len(b) /\ b[DigitsEnd(b, 1)] = ".")
FloatStripped(q) ==
    FloatUnsigned(IF q # <<>> /\ q[1] \in Signs THEN Tail(q) ELSE q,
                  q # <<>> /\ q[1] = "-")
float_str(q0) == FloatStripped(Strip(q0))

-----------------------------------------------------------------------------
(* Coordinate extractor *)

\* end (exclusive) of a match of [+-]?\d+(?:\.\d+)? starting exactly at i,
\* 0 when there is none
MatchNum(q, i) ==
    LET j == IF q[i] \in Signs THEN i + 1 ELSE i
    IN  IF j <= Len(q) /\ q[j] \in Digits
        THEN LET k == DigitsEnd(q, j)
             IN  IF k + 1 <= Len(q) /\ q[k] = "." /\ q[k + 1] \in Digits
                 THEN DigitsEnd(q, k + 1)
                 ELSE k
        ELSE 0

\* re.findall(r'([+-]?\d+(?:\.\d+)?)([NnSsEeWw]?)', q): the non-overlapping
\* matches from left to right, each as (num, hemi)
RECURSIVE FindNumHemi(_, _)
FindNumHemi(q, i) ==
    IF i > Len(q) THEN <<>>
    ELSE LET e == MatchNum(q, i)
         IN  IF e = 0 THEN FindNumHemi(q, i + 1)
             ELSE LET h == IF e <= Len(q) /\ q[e] \in HemiLetters
                           THEN q[e] ELSE ""
                      nxt == IF h = "" THEN e ELSE e + 1
                  IN  <<[num |-> SubSeq(q, i, e - 1), hemi |-> h]>>
                        \o FindNumHemi(q, nxt)

\* re.findall(r'([+-]?\d+(?:\.\d+)?)', q)
RECURSIVE FindNum(_, _)
FindNum(q, i) ==
    IF i > Len(q) THEN <<>>
    ELSE LET e == MatchNum(q, i)
         IN  IF e = 0 THEN FindNum(q, i + 1)
             ELSE <<SubSeq(q, i, e - 1)>> \o FindNum(q, e)

\* the if / elif chain over the upper-cased hemisphere letter
SignFor(x, h) ==
    IF h = "S" THEN -Abs(x)
    ELSE IF h = "N" THEN Abs(x)
    ELSE IF h = "W" THEN -Abs(x)
    ELSE IF h = "E" THEN Abs(x)
    ELSE x

\* HemiSigned with the letter compared as written, so that a lower-case
\* letter is not recognised
HemiSignedCaseSensitive(tok) == SignFor(float_str(tok.num).v, tok.hemi)

\* the loop body of _parse_ns_ew: one token to one signed number
HemiSigned(tok) == SignFor(float_str(tok.num).v, Upper(tok.hemi))

\* the signed numbers of all tokens, in order
SignedNums(tokens) == [i \in 1..Len(tokens) |-> HemiSigned(tokens[i])]
\* if len(nums) >= 2: return nums[0], nums[1]; return None, None
FirstTwo(nums) ==
    IF Len(nums) >= 2 THEN <<Num(nums[1]), Num(nums[2])>> ELSE <<None, None>>
LastTwo(nums) ==
    IF Len(nums) >= 2 THEN <<Num(nums[Len(nums) - 1]), Num(nums[Len(nums)])>>
    ELSE <<None, None>>

\* _parse_ns_ew counting only the tokens that carry a hemisphere letter
ParseLetteredOnly(val) ==
    IF val.t # "str" THEN <<None, None>>
    ELSE FirstTwo(SignedNums(SelectSeq(FindNumHemi(Strip(val.s), 1),
                                       LAMBDA k : k.hemi # "")))

\* _parse_ns_ew returning the last two numbers instead of the first two
ParseLastTwo(val) ==
    IF val.t # "str" THEN <<None, None>>
    ELSE LastTwo(SignedNums(FindNumHemi(Strip(val.s), 1)))

_parse_ns_ew(val) ==
    IF val.t # "str" THEN <<None, None>>
    ELSE FirstTwo(SignedNums(FindNumHemi(Strip(val.s), 1)))

\* the plain scan answering zeros when it finds fewer than two numbers
PlainPairZeros(q) ==
    LET nums == FindNum(q, 1)
    IN  IF Len(nums) >= 2
        THEN <<float_str(nums[1]), float_str(nums[2])>>
        ELSE <<Num(0), Num(0)>>

\* the generic "lat, lon" pattern at the end of _extract_lat_lon_from_text
PlainPair(q) ==
    LET nums == FindNum(q, 1)
    IN  IF Len(nums) >= 2
        THEN <<float_str(nums[1]), float_str(nums[2])>>
        ELSE <<NaN, NaN>>

\* the extractor answering zeros where it has nothing to answer
ExtractZeros(val) ==
    IF val.t # "str" THEN <<Num(0), Num(0)>>
    ELSE LET p == _parse_ns_ew(val)
             nums == FindNum(val.s, 1)
         IN  IF p[1] # None /\ p[2] # None THEN p
             ELSE IF Len(nums) >= 2 THEN <<float_str(nums[1]), float_str(nums[2])>>
             ELSE <<Num(0), Num(0)>>

_extract_lat_lon_from_text(val) ==
    IF val.t # "str" THEN <<NaN, NaN>>
    ELSE LET p == _parse_ns_ew(val)
         IN  IF p[1] # None /\ p[2] # None THEN p
             ELSE PlainPair(val.s)

-----------------------------------------------------------------------------
(* Enumerated arguments of the extractor *)

\* characters of the exhaustively enumerated texts
TextAlphabet == {"1", "9", "-", ".", "S", "w", " ", ","}

RECURSIVE SeqsUpTo(_, _)
SeqsUpTo(A, n) ==
    IF n = 0 THEN {<<>>}
    ELSE LET shorter == SeqsUpTo(A, n - 1)
         IN  shorter \cup {Append(q, c) : q \in {r \in shorter : Len(r) = n - 1}, c \in A}

\* decimal literals with the number each one writes, in tenths
NumLits ==
    { [s |-> <<"5">>, tenths |-> 50],
      [s |-> <<"-", "5">>, tenths |-> -50],
      [s |-> <<"+", "7">>, tenths |-> 70],
      [s |-> <<"2", "3", ".", "5">>, tenths |-> 235],
      [s |-> <<"9", "1", ".", "0">>, tenths |-> 910],
      [s |-> <<"1", "0", ".", "0">>, tenths |-> 100] }
LitVal(a) == a.tenths * (Scale \div 10)

Delims == {<<" ">>, <<",", " ">>, <<";">>}
HemiOrNone == {<<>>} \cup {<<h>> : h \in HemiLetters}

PairShapes ==
    [kind : {"pair"}, a : NumLits, h1 : HemiOrNone, d : Delims,
     b : NumLits, h2 : HemiOrNone, rest : {<<>>, <<" ", "8", "8", "S">>}]
FewShapes ==
    {[kind |-> "few", q |-> q] : q \in
        {<<>>, <<"x">>, <<"n", "o", "n", "e">>} \cup
        {a.s \o h : a \in NumLits, h \in HemiOrNone}}
ShortShapes == {[kind |-> "short", q |-> q] : q \in SeqsUpTo(TextAlphabet, MaxLen)}
NonStrShapes == {[kind |-> "nonstr", val |-> x] : x \in {NaN, None, Num(5 * Scale)}}

ShapeText(sh) ==
    CASE sh.kind = "pair" -> Str(sh.a.s \o sh.h1 \o sh.d \o sh.b.s \o sh.h2 \o sh.rest)
      [] sh.kind = "nonstr" -> sh.val
      [] OTHER -> Str(sh.q)

-----------------------------------------------------------------------------
(* The extractor as a state machine: one call of _extract_lat_lon_from_text *)

ExtractInit ==
    /\ shape \in PairShapes \cup FewShapes \cup ShortShapes \cup NonStrShapes
    /\ text = ShapeText(shape)
    /\ pc = "x_call"
    /\ parsed = Idle /\ via = "" /\ result = Idle
    /\ lat_in = Idle /\ lon_in = Idle
    /\ all_df = <<>> /\ input_df = <<>> /\ asked = Idle
    /\ AuxIdle

\* entry: the isinstance test, then the call of _parse_ns_ew
ExtractCall ==
    /\ pc = "x_call"
    /\ IF text.t # "str"
       THEN /\ result' = _extract_lat_lon_from_text(text)
            /\ via' = "not_str"
            /\ pc' = "x_done"
            /\ UNCHANGED parsed
       ELSE /\ parsed' = _parse_ns_ew(text)
            /\ pc' = "x_parsed"
            /\ UNCHANGED <<via, result>>
    /\ UNCHANGED <<text, shape, lat_in, lon_in, all_df, input_df, asked>>
    /\ UNCHANGED aux

\* the rest of the body: return the hemisphere-aware pair, else the plain scan
ExtractReturn ==
    /\ pc = "x_parsed"
    /\ result' = _extract_lat_lon_from_text(text)
    /\ via' = IF parsed[1] # None /\ parsed[2] # None THEN "ns_ew"
              ELSE IF Len(FindNum(text.s, 1)) >= 2 THEN "fallback"
              ELSE "not_found"
    /\ pc' = "x_done"
    /\ UNCHANGED <<text, shape, parsed, lat_in, lon_in, all_df, input_df, asked>>
    /\ UNCHANGED aux

ExtractNext == ExtractCall \/ ExtractReturn
SpecExtract == ExtractInit /\ [][ExtractNext]_vars

-----------------------------------------------------------------------------
(* Coordinate validator *)

isna(x) == x.t \in {"nan", "none"}

\* float(x) of a Python value: a str is parsed, a float is itself, None raises
pyfloat(x) ==
    CASE x.t = "str" -> float_str(x.s)
      [] x.t = "none" -> Raise
      [] OTHER -> x

isfinite(x) == x.t = "num"

\* the try block with the bounds excluded
ValidTryStrict(lat, lon) ==
    IF isna(lat) \/ isna(lon) THEN [raised |-> FALSE, value |-> FALSE]
    ELSE LET flat == pyfloat(lat)
             flon == pyfloat(lon)
         IN  IF flat = Raise \/ flon = Raise
             THEN [raised |-> TRUE, value |-> FALSE]
             ELSE [raised |-> FALSE,
                   value |-> /\ isfinite(flat) /\ isfinite(flon)
                             /\ -90 * Scale < flat.v /\ flat.v < 90 * Scale
                             /\ -180 * Scale < flon.v /\ flon.v < 180 * Scale]

\* the try block of _valid_lat_lon: its value, or the exception it raises
ValidTry(lat, lon) ==
    IF isna(lat) \/ isna(lon) THEN [raised |-> FALSE, value |-> FALSE]
    ELSE LET flat == pyfloat(lat)
             flon == pyfloat(lon)
         IN  IF flat = Raise \/ flon = Raise
             THEN [raised |-> TRUE, value |-> FALSE]
             ELSE [raised |-> FALSE,
                   value |-> /\ isfinite(flat) /\ isfinite(flon)
                             /\ -90 * Scale <= flat.v /\ flat.v <= 90 * Scale
                             /\ -180 * Scale <= flon.v /\ flon.v <= 180 * Scale]

\* the validator without its except clause
ValidNoExcept(lat, lon) == ValidTry(lat, lon)

\* except Exception: return False
_valid_lat_lon(lat, lon) ==
    LET r == ValidTry(lat, lon)
    IN  IF r.raised THEN [raised |-> FALSE, value |-> FALSE] ELSE r

\* characters of the exhaustively enumerated cell strings
CellAlphabet == {"9", "0", "-", ".", " ", "x"}

BoundaryNums ==
    {Num(x) : x \in {0, 90 * Scale, 90 * Scale + 1, -90 * Scale, -90 * Scale - 1,
                     180 * Scale, 180 * Scale + 1, -180 * Scale, -180 * Scale - 1}}
WordCells ==
    {Str(<<"i", "n", "f">>), Str(<<"-", "I", "n", "f">>), Str(<<"n", "a", "n">>),
     Str(<<"a", "b", "c">>), Str(<<"1", "0", " ", "N">>), Str(<<"1", "8", "0">>),
     Str(<<"-", "1", "8", "0", ".", "1">>)}
ValidatorInputs ==
    {None, NaN, Inf(1), Inf(-1)} \cup BoundaryNums \cup WordCells
      \cup {Str(a.s) : a \in NumLits}
      \cup {Str(q) : q \in SeqsUpTo(CellAlphabet, MaxCellLen)}

ValidInit ==
    /\ lat_in \in ValidatorInputs
    /\ lon_in \in ValidatorInputs
    /\ pc = "v_call"
    /\ result = Idle
    /\ text = Idle /\ shape = Idle /\ parsed = Idle /\ via = ""
    /\ all_df = <<>> /\ input_df = <<>> /\ asked = Idle
    /\ AuxIdle

ValidCall ==
    /\ pc = "v_call"
    /\ result' = _valid_lat_lon(lat_in, lon_in)
    /\ pc' = "v_done"
    /\ UNCHANGED <<text, shape, parsed, via, lat_in, lon_in, all_df, input_df, asked>>
    /\ UNCHANGED aux

ValidNext == ValidCall
SpecValid == ValidInit /\ [][ValidNext]_vars

-----------------------------------------------------------------------------
(* Enrichment resolver: fill_and_filter_geo and its two collaborators *)

\* a missing identifier (NaN in the Run or Sample column)
NoId == "NaN"
\* identifiers that are not Python strings: NaN, None
NoneId == "None"
NonStrIds == {NoId, NoneId}
\* strings r.strip() leaves empty
IsBlank(id) == id \in {"", " ", "  "}

RECURSIVE Concat(_)
Concat(ss) == IF ss = <<>> THEN <<>> ELSE Head(ss) \o Concat(Tail(ss))

\* Series.unique(): first occurrences, in order
RECURSIVE Unique(_)
Unique(q) ==
    IF q = <<>> THEN <<>>
    ELSE LET init == SubSeq(q, 1, Len(q) - 1)
             u == Unique(init)
         IN  IF \E i \in 1..Len(u) : u[i] = q[Len(q)] THEN u ELSE Append(u, q[Len(q)])

\* ids[i : i + chunk_size] for i in range(0, len(ids), chunk_size)
\* NChunks counting one chunk too many when the length is a multiple
NChunksPlusOne(n, size) == n \div size + 1
NChunks(n, size) == (n + size - 1) \div size
Chunk(ids, size, k) ==
    SubSeq(ids, (k - 1) * size + 1, IF k * size < Len(ids) THEN k * size ELSE Len(ids))

\* enrich_coords_from_ena_by_runs / _by_samples: the identifiers kept, cut in
\* chunks, one request per chunk.  outcomes[k] is what the k-th request did:
\*   kind "raise"  the request, its status check or the parse raised
\*   kind "empty"  an empty body, or a table with no row
\*   kind "table"  a table of rows; cols tells whether it has all of the
\*                 key, latitude, longitude and geographic_location columns
\* The result is the concatenation of the appended tables.
KeptIds(ids) == SelectSeq(ids, LAMBDA r : r \notin NonStrIds /\ ~IsBlank(r))
enrich_coords_from_ena(ids, size, outcomes) ==
    LET kept == KeptIds(ids)
        n == NChunks(Len(kept), size)
        records == SelectSeq([k \in 1..n |-> outcomes[k]],
                             LAMBDA o : o.kind = "table" /\ o.rows # <<>>)
    IN  [rows |-> Concat([k \in 1..Len(records) |-> records[k].rows]),
         cols |-> records = <<>> \/ \E k \in 1..Len(records) : records[k].cols,
         sent |-> [k \in 1..n |-> Chunk(kept, size, k)]]

chunk_size == 200

\* a fill that lets the later source win
FillOverwrite(cell, other) == IF isna(other) THEN cell ELSE other

\* Series.fillna(other): first-source-wins
fillna(cell, other) == IF isna(cell) THEN other ELSE cell

\* one row of the left merge with its three columns filled from the row e of
\* the lookup table, and the suffixed columns dropped again
FillRow(row, e, i) ==
    [row EXCEPT !.latitude = fillna(row.latitude, e.latitude),
                !.longitude = fillna(row.longitude, e.longitude),
                !.geographic_location = fillna(row.geographic_location, e.geographic_location),
                !.prev = i]

\* the first value of a column among the rows m, NaN when there is none
FirstValue(m, col) ==
    IF \A k \in 1..Len(m) : isna(m[k][col]) THEN NaN
    ELSE m[CHOOSE k \in 1..Len(m) :
               ~isna(m[k][col]) /\ \A l \in 1..(k - 1) : isna(m[l][col])][col]
\* the merge against a lookup table reduced to one row per key, each column
\* the first value the table has for the key
MergeFillColumnwise(df, enr, key) ==
    [i \in 1..Len(df) |->
        FillRow(df[i],
                [latitude |-> FirstValue(SelectSeq(enr, LAMBDA e : e.key = df[i][key]), "latitude"),
                 longitude |-> FirstValue(SelectSeq(enr, LAMBDA e : e.key = df[i][key]), "longitude"),
                 geographic_location |->
                     FirstValue(SelectSeq(enr, LAMBDA e : e.key = df[i][key]), "geographic_location")],
                i)]

\* all_df.merge(enr, on=key, how="left") and the fillna loop: every row of
\* all_df, in order, once per row of enr with the same key (once, with
\* nothing to fill from, when there is none)
MergeFill(df, enr, key) ==
    LET Block(i) ==
            LET m == SelectSeq(enr, LAMBDA e : e.key = df[i][key])
            IN  IF m = <<>> THEN <<[df[i] EXCEPT !.prev = i]>>
                ELSE [k \in 1..Len(m) |-> FillRow(df[i], m[k], i)]
    IN  Concat([i \in 1..Len(df) |-> Block(i)])

MissingCoord(row) == isna(row.latitude) \/ isna(row.longitude)

\* runs_to_enrich asking for every run of the frame
RunsOfAll(df) == Unique([i \in 1..Len(df) |-> df[i].Run])

\* all_df.loc[need_geo, "Run"].dropna().astype(str).unique().tolist()
runs_to_enrich(df) ==
    Unique(SelectSeq([i \in 1..Len(df) |-> IF df[i].Run # NoId /\ MissingCoord(df[i])
                                            THEN df[i].Run ELSE NoId],
                     LAMBDA r : r # NoId))
\* samples_to_enrich asking for every sample of the frame
SamplesOfAll(df) ==
    Unique(SelectSeq([i \in 1..Len(df) |-> df[i].Sample], LAMBDA r : r # NoId))

samples_to_enrich(df) ==
    Unique(SelectSeq([i \in 1..Len(df) |-> IF df[i].Sample # NoId /\ MissingCoord(df[i])
                                            THEN df[i].Sample ELSE NoId],
                     LAMBDA r : r # NoId))

\* stage (3) leaving the location text unread
ParseFillNone(df) == [i \in 1..Len(df) |-> [df[i] EXCEPT !.prev = i]]

\* stage (3) reading the location text of every row and letting it win
ParseFillAll(df) ==
    [i \in 1..Len(df) |->
        [df[i] EXCEPT !.latitude =
                          FillOverwrite(df[i].latitude,
                              _extract_lat_lon_from_text(df[i].geographic_location)[1]),
                      !.longitude =
                          FillOverwrite(df[i].longitude,
                              _extract_lat_lon_from_text(df[i].geographic_location)[2]),
                      !.prev = i]]

\* stage (3): the extractor over the location text of the rows still missing
\* a coordinate, each column filled on its own
ParseFill(df) ==
    [i \in 1..Len(df) |->
        IF MissingCoord(df[i])
        THEN LET t == _extract_lat_lon_from_text(df[i].geographic_location)
             IN  [df[i] EXCEPT !.latitude = fillna(df[i].latitude, t[1]),
                               !.longitude = fillna(df[i].longitude, t[2]),
                               !.prev = i]
        ELSE [df[i] EXCEPT !.prev = i]]

\* pd.to_numeric(errors="coerce") of one cell
to_numeric(x) ==
    LET f == IF x.t = "str" THEN float_str(x.s) ELSE x
    IN  IF f.t \in {"num", "inf"} THEN f ELSE NaN

\* the last block without the filter
NumericNoFilter(df) ==
    [i \in 1..Len(df) |->
        [df[i] EXCEPT !.latitude = to_numeric(df[i].latitude),
                      !.longitude = to_numeric(df[i].longitude),
                      !.prev = i]]

\* the last block: both columns to numbers, then the rows the validator accepts
NumericAndValid(df) ==
    LET num == [i \in 1..Len(df) |->
                  [df[i] EXCEPT !.latitude = to_numeric(df[i].latitude),
                                !.longitude = to_numeric(df[i].longitude),
                                !.prev = i]]
    IN  SelectSeq(num, LAMBDA r : _valid_lat_lon(r.latitude, r.longitude).value)

-----------------------------------------------------------------------------
(* Enumerated frames and collaborator answers *)

T(q) == Str(q)
GoodText == T(<<"2", "3", ".", "5", "S", " ", "4", "5", ".", "2", "W">>)
BadText == T(<<"9", "1", ".", "0", ",", " ", "1", "0", ".", "0">>)
NoCoords == [latitude |-> NaN, longitude |-> NaN]
BadCoords == [latitude |-> T(<<"9", "5">>), longitude |-> T(<<"2", "0", ".", "0">>)]
\* both present, the latitude not a number
NonNumCoords == [latitude |-> T(<<"x">>), longitude |-> T(<<"2", "0", ".", "0">>)]
\* both present as floats, as in a frame fill_and_filter_geo returned
NumCoords == [latitude |-> Num(10 * Scale), longitude |-> Num(20 * Scale)]
\* both present and valid, as text
TextCoords ==
    [latitude |-> T(<<"1", "0", ".", "0">>), longitude |-> T(<<"2", "0", ".", "0">>)]
\* the longitude missing
HalfCoords == [latitude |-> T(<<"1", "0", ".", "0">>), longitude |-> NaN]
\* the coordinate cells of one input row
InCoords == {NoCoords, BadCoords, NonNumCoords, NumCoords, TextCoords, HalfCoords}
\* with the location text of the row: none, one that parses to a valid pair,
\* one that parses to a latitude out of range
InCells ==
    {[c |-> NoCoords, loc |-> loc] : loc \in {NaN, GoodText, BadText}}
    \cup {[c |-> c, loc |-> GoodText] : c \in {HalfCoords, BadCoords, NonNumCoords}}
    \cup {[c |-> c, loc |-> NaN] : c \in {TextCoords, NumCoords}}
RunIds == <<"R1", "R2", "R3", "R4", "R5">>
SampleIds == {"S1"}

\* the frame main hands over: Run is a string and, after drop_duplicates,
\* unique; every other cell was read with dtype=str (a string or NaN)
InputRows(i) ==
    {[Run |-> RunIds[i], Sample |-> sm,
      latitude |-> x.c.latitude, longitude |-> x.c.longitude, geographic_location |-> x.loc,
      id |-> i, prev |-> i] : sm \in SampleIds \cup {NoId}, x \in InCells}
RECURSIVE InputFrames(_)
InputFrames(n) ==
    IF n = 0 THEN {<<>>}
    ELSE {Append(f, r) : f \in InputFrames(n - 1), r \in InputRows(n)}

\* the rows an answer is made of: both coordinates; one coordinate and a
\* location text; (per sample) an out-of-range latitude
RunAnswerRows ==
    {[key |-> "R1", latitude |-> T(<<"3", "0">>), longitude |-> T(<<"4", "0">>),
      geographic_location |-> NaN],
     [key |-> "R2", latitude |-> T(<<"3", "0">>), longitude |-> NaN,
      geographic_location |-> T(<<"7", "N", " ", "8", "E">>)]}
SampleAnswerRows ==
    {[key |-> "S1", latitude |-> T(<<"5", "0">>), longitude |-> T(<<"6", "0">>),
      geographic_location |-> NaN],
     [key |-> "S1", latitude |-> T(<<"-", "9", "9">>), longitude |-> NaN,
      geographic_location |-> T(<<"9", "N", " ", "9", "E">>)]}

\* what one request can do; a table that lacks a column is enumerated once
Outcomes(rowset) ==
    {[kind |-> "raise", rows |-> <<>>, cols |-> TRUE],
     [kind |-> "empty", rows |-> <<>>, cols |-> TRUE]}
    \cup {[kind |-> "table", rows |-> q, cols |-> TRUE] :
            q \in SeqsUpTo(rowset, MaxRows) \ {<<>>}}
    \cup {[kind |-> "table", rows |-> <<r>>, cols |-> FALSE] :
            r \in {CHOOSE x \in rowset : TRUE}}

-----------------------------------------------------------------------------
(* fill_and_filter_geo as a state machine, one action per block of the body *)

\* what is remembered of a lookup: whether it was made, the chunks sent, what
\* each request did, and whether the answer held a row for an identifier
\* that was not sent (extra) or two rows for one identifier (dup)
NotAsked == [called |-> FALSE, sent |-> <<>>, kinds |-> <<>>, extra |-> FALSE, dup |-> FALSE]
HasExtra(rows, ids) == \E k \in 1..Len(rows) : \A i \in 1..Len(ids) : ids[i] # rows[k].key
HasDup(rows) == \E k, l \in 1..Len(rows) : k < l /\ rows[k].key = rows[l].key

Init ==
    /\ \E n \in 1..MaxRecs : input_df \in InputFrames(n)
    /\ all_df = input_df
    /\ pc = "run_stage"
    /\ asked = [run |-> NotAsked, sample |-> NotAsked]
    /\ text = Idle /\ shape = Idle /\ parsed = Idle /\ via = "" /\ result = Idle
    /\ lat_in = Idle /\ lon_in = Idle
    /\ AuxIdle

\* the body of one lookup block, shared by (1) and (2)
LookupStage(ids, rowset, key, stage, nextpc) ==
    IF ids = <<>>
    THEN /\ all_df' = [i \in 1..Len(all_df) |-> [all_df[i] EXCEPT !.prev = i]]
         /\ pc' = nextpc
         /\ UNCHANGED asked
    ELSE \E outcomes \in [1..NChunks(Len(KeptIds(ids)), chunk_size) -> Outcomes(rowset)] :
            LET enr == enrich_coords_from_ena(ids, chunk_size, outcomes)
            IN  /\ asked' = [asked EXCEPT ![stage] =
                                [called |-> TRUE, sent |-> enr.sent,
                                 kinds |-> [k \in 1..Len(enr.sent) |-> outcomes[k].kind],
                                 extra |-> HasExtra(enr.rows, KeptIds(ids)),
                                 dup |-> HasDup(enr.rows)]]
                /\ IF enr.rows = <<>>
                   THEN /\ all_df' = [i \in 1..Len(all_df) |-> [all_df[i] EXCEPT !.prev = i]]
                        /\ pc' = nextpc
                   ELSE IF ~enr.cols
                   THEN /\ pc' = "raised"
                        /\ UNCHANGED all_df
                   ELSE /\ all_df' = MergeFill(all_df, enr.rows, key)
                        /\ pc' = nextpc

\* (1) Completar con ENA por Run
RunStage ==
    /\ pc = "run_stage"
    /\ LookupStage(runs_to_enrich(all_df), RunAnswerRows, "Run", "run", "sample_stage")
    /\ UNCHANGED <<text, shape, parsed, via, result, lat_in, lon_in, input_df>>
    /\ UNCHANGED aux

\* (2) Completar con ENA por Sample
SampleStage ==
    /\ pc = "sample_stage"
    /\ LookupStage(samples_to_enrich(all_df), SampleAnswerRows, "Sample", "sample", "parse_stage")
    /\ UNCHANGED <<text, shape, parsed, via, result, lat_in, lon_in, input_df>>
    /\ UNCHANGED aux

\* (3) Parseo de geographic_location
ParseStage ==
    /\ pc = "parse_stage"
    /\ all_df' = ParseFill(all_df)
    /\ pc' = "validate"
    /\ UNCHANGED <<text, shape, parsed, via, result, lat_in, lon_in, input_df, asked>>
    /\ UNCHANGED aux

\* Convertir a numerico y validar; return all_df
ValidateStage ==
    /\ pc = "validate"
    /\ all_df' = NumericAndValid(all_df)
    /\ pc' = "done"
    /\ UNCHANGED <<text, shape, parsed, via, result, lat_in, lon_in, input_df, asked>>
    /\ UNCHANGED aux

Next == RunStage \/ SampleStage \/ ParseStage \/ ValidateStage
Spec == Init /\ [][Next]_vars

-----------------------------------------------------------------------------
(* Properties *)

InLatRange(v) == v \in (-90 * Scale)..(90 * Scale)
InLonRange(v) == v \in (-180 * Scale)..(180 * Scale)
Rows(df) == {df[i] : i \in 1..Len(df)}
Cols == {"latitude", "longitude", "geographic_location"}
Fields == {"Run", "Sample", "latitude", "longitude", "geographic_location", "id"}

\* C1: every record fill_and_filter_geo returns has a latitude and a
\* longitude that are present, finite and within [-90, 90] and [-180, 180].
C1_OutputCoordinatesValid ==
    pc = "done" =>
        \A r \in Rows(all_df) :
            /\ r.latitude.t = "num" /\ InLatRange(r.latitude.v)
            /\ r.longitude.t = "num" /\ InLonRange(r.longitude.v)

\* a record was kept and another one, with a latitude out of range, dropped
C1_Witness ==
    /\ pc = "done" /\ all_df # <<>>
    /\ \E r \in Rows(input_df) :
          /\ r.latitude = BadCoords.latitude /\ r.longitude = BadCoords.longitude
          /\ \A o \in Rows(all_df) : o.id # r.id

\* every request of the stage raised or came back empty, or none was made
NothingFrom(a) == \A k \in 1..Len(a.kinds) : a.kinds[k] \in {"raise", "empty"}
Unresolvable(r) ==
    /\ isna(r.latitude) /\ isna(r.longitude) /\ isna(r.geographic_location)
    /\ NothingFrom(asked.run) /\ NothingFrom(asked.sample)

\* C2: a record without coordinates and without location text, for which
\* both lookups failed or returned nothing, still has no coordinates after
\* the text parse (none is made up) and is absent from the output.
C2_UnresolvableDropped ==
    \A r \in Rows(input_df) :
        Unresolvable(r) =>
            /\ pc = "validate" =>
                  \A o \in Rows(all_df) :
                      o.id = r.id => isna(o.latitude) /\ isna(o.longitude)
            /\ pc = "done" => \A o \in Rows(all_df) : o.id # r.id

\* such a record went through both failing lookups, next to a record kept
C2_Witness ==
    /\ pc = "done" /\ all_df # <<>>
    /\ asked.run.called /\ asked.sample.called
    /\ \E r \in Rows(input_df) : Unresolvable(r) /\ r.Sample # NoId

\* C3: for present, finite numbers (given as floats or as decimal text) the
\* validator answers true exactly when -90 <= lat <= 90 and
\* -180 <= lon <= 180, each of the four bounds included.
C3_ValidIffInRange ==
    pc = "v_done" =>
        /\ (lat_in.t = "num" /\ lon_in.t = "num") =>
              result = [raised |-> FALSE,
                        value |-> InLatRange(lat_in.v) /\ InLonRange(lon_in.v)]
        /\ \A a, b \in NumLits :
              (lat_in = Str(a.s) /\ lon_in = Str(b.s)) =>
                  result.value = (InLatRange(LitVal(a)) /\ InLonRange(LitVal(b)))
        /\ (lat_in \in {Num(90 * Scale), Num(-90 * Scale)}
               /\ lon_in \in {Num(180 * Scale), Num(-180 * Scale)}) => result.value
        /\ (lat_in \in {Num(90 * Scale + 1), Num(-90 * Scale - 1)} /\ lon_in.t = "num")
              => ~result.value
        /\ (lon_in \in {Num(180 * Scale + 1), Num(-180 * Scale - 1)} /\ lat_in.t = "num")
              => ~result.value

\* both bounds met at once and accepted
C3_Witness ==
    /\ pc = "v_done" /\ lat_in = Num(90 * Scale) /\ lon_in = Num(-180 * Scale)
    /\ result.value

\* absent, infinite, or text that is not a finite number
NotANumber(x) ==
    \/ isna(x) \/ x.t = "inf"
    \/ x.t = "str" /\ float_str(x.s).t # "num"

\* C4: when either value is absent (None / NaN), non-numeric text or
\* infinite, the validator returns False and raises nothing.
C4_InvalidIsFalseNoRaise ==
    (pc = "v_done" /\ (NotANumber(lat_in) \/ NotANumber(lon_in))) =>
        result = [raised |-> FALSE, value |-> FALSE]

\* non-numeric text beside a valid longitude
C4_Witness ==
    /\ pc = "v_done" /\ lat_in = Str(<<"a", "b", "c">>) /\ lon_in = Num(0)
    /\ result.value = FALSE

\* the number a literal stands for once its hemisphere letter is applied
LetterSigned(a, h) ==
    IF h = <<>> THEN LitVal(a)
    ELSE IF h[1] \in {"S", "s", "W", "w"} THEN -Abs(LitVal(a))
    ELSE Abs(LitVal(a))

\* C5: in "<num><hemi> <num><hemi>" each number gets the sign of its letter
\* whatever sign was written (S, W minus; N, E plus; either case), and a
\* number without a letter keeps its written signed value.
C5_SignFollowsLetter ==
    (pc = "x_done" /\ shape.kind = "pair" /\ shape.d = <<" ">> /\ shape.rest = <<>>) =>
        result = <<Num(LetterSigned(shape.a, shape.h1)), Num(LetterSigned(shape.b, shape.h2))>>

\* "-5N 23.5w": a written minus overridden by N, a lower-case w negating
C5_Witness ==
    /\ pc = "x_done" /\ shape.kind = "pair" /\ shape.d = <<" ">> /\ shape.rest = <<>>
    /\ shape.a.tenths = -50 /\ shape.h1 = <<"N">>
    /\ shape.b.tenths = 235 /\ shape.h2 = <<"w">>
    /\ result = <<Num(5 * Scale), Num(-LitVal(shape.b))>>

\* C6: for an argument that is not a string, or a string with fewer than two
\* numeric tokens, the extractor returns (NaN, NaN), never a number.
C6_FewTokensNotFound ==
    (pc = "x_done"
       /\ (text.t # "str" \/ shape.kind = "few" \/ Len(FindNum(text.s, 1)) < 2)) =>
        result = <<NaN, NaN>>

\* one number with a hemisphere letter, and nothing else
C6_Witness ==
    /\ pc = "x_done" /\ text = Str(<<"2", "3", ".", "5", "S">>)
    /\ result = <<NaN, NaN>>

PlainPairShape ==
    shape.kind = "pair" /\ shape.h1 = <<>> /\ shape.h2 = <<>> /\ shape.rest = <<>>

\* C7 as claimed: two plain numbers separated by a delimiter, no hemisphere
\* letter: the hemisphere-aware scan finds fewer than two tokens and the
\* pair comes from the fallback plain scan, unchanged.
C7_Original ==
    (pc = "x_done" /\ PlainPairShape) =>
        /\ via = "fallback"
        /\ result = <<Num(LitVal(shape.a)), Num(LitVal(shape.b))>>

\* C7 amended: for such a text the hemisphere-aware scan itself finds both
\* tokens (its letter is optional) and returns the two numbers unchanged as
\* (latitude, longitude); the fallback scan is not used.
C7_PlainPairByFirstScan ==
    (pc = "x_done" /\ PlainPairShape) =>
        /\ via = "ns_ew"
        /\ parsed = <<Num(LitVal(shape.a)), Num(LitVal(shape.b))>>
        /\ result = parsed

\* "91.0, 10.0" gives (91.0, 10.0)
C7_Witness ==
    /\ pc = "x_done" /\ text = BadText
    /\ result = <<Num(91 * Scale), Num(10 * Scale)>>

\* C8: with at least two numeric tokens the extractor returns the first two
\* in order, each signed by its own letter, whatever the letters or the
\* magnitudes; later tokens are ignored.
C8_FirstTwoTokens ==
    pc = "x_done" =>
        /\ shape.kind = "pair" =>
              result = <<Num(LetterSigned(shape.a, shape.h1)),
                         Num(LetterSigned(shape.b, shape.h2))>>
        /\ (shape.kind = "short" /\ Len(FindNum(text.s, 1)) >= 2) =>
              LET nums == FindNum(text.s, 1)
              IN  /\ result[1].t = "num" /\ result[2].t = "num"
                  /\ Abs(result[1].v) = Abs(float_str(nums[1]).v)
                  /\ Abs(result[2].v) = Abs(float_str(nums[2]).v)

\* two S tokens, the second out of range, and a third token after them
C8_Witness ==
    /\ pc = "x_done" /\ shape.kind = "pair" /\ shape.rest # <<>>
    /\ shape.h1 = <<"S">> /\ shape.h2 = <<"S">> /\ shape.b.tenths = 910
    /\ result[1].v < 0 /\ result[2] = Num(-91 * Scale)

SameRecord(a, b) == \A f \in Fields : a[f] = b[f]
FillStep == pc \in {"run_stage", "sample_stage", "parse_stage"} /\ pc' # "raised"

\* the answers so far held one row at most for each identifier sent, and
\* no other row
PlainAnswers(a) == ~a.run.extra /\ ~a.run.dup /\ ~a.sample.extra /\ ~a.sample.dup

\* C9 as claimed: a record holding both coordinates when a fill stage begins
\* leaves the stage once, with every field unchanged (stated here for the
\* answers that hold one row at most per identifier sent, and no other row).
C9_Original ==
    [][(FillStep /\ PlainAnswers(asked')) =>
        \A i \in 1..Len(all_df) :
            ~MissingCoord(all_df[i]) =>
                /\ Cardinality({j \in 1..Len(all_df') : all_df'[j].prev = i}) = 1
                /\ \A j \in 1..Len(all_df') :
                      all_df'[j].prev = i => SameRecord(all_df'[j], all_df[i])]_vars

\* C10: a latitude, longitude or location text present on a record when a
\* fill stage begins is the one the record has when the stage ends, and a
\* coordinate given by the input is the one a returned record carries.
C10_FirstSourceWins ==
    /\ [][FillStep =>
            \A j \in 1..Len(all_df') :
                \A c \in Cols :
                    ~isna(all_df[all_df'[j].prev][c]) =>
                        all_df'[j][c] = all_df[all_df'[j].prev][c]]_vars
    /\ [](pc = "done" =>
            \A o \in Rows(all_df) :
                /\ ~isna(input_df[o.id].latitude)
                      => o.latitude = to_numeric(input_df[o.id].latitude)
                /\ ~isna(input_df[o.id].longitude)
                      => o.longitude = to_numeric(input_df[o.id].longitude))

\* a record that came with latitude 10.0 and no longitude was offered
\* (30, 40) by the per-run lookup and now holds (10.0, 40)
C10_Witness ==
    /\ pc = "sample_stage"
    /\ \E o \in Rows(all_df) :
          /\ isna(input_df[o.id].longitude)
          /\ o.latitude = input_df[o.id].latitude /\ ~isna(o.latitude)
          /\ o.longitude = T(<<"4", "0">>)

\* C11 as claimed: whatever a collaborator does for a chunk, the resolver
\* does not raise: one outcome is recorded for every chunk sent and the
\* function goes on to the next stage.
C11_Original ==
    /\ pc # "raised"
    /\ asked.run.called => Len(asked.run.kinds) = Len(asked.run.sent)
    /\ asked.sample.called => Len(asked.sample.kinds) = Len(asked.sample.sent)

\* every record of the frame holds a pair the validator accepts
ResolvedValid(df) ==
    \A i \in 1..Len(df) : _valid_lat_lon(df[i].latitude, df[i].longitude).value
SameButCoords(a, b) ==
    \A f \in Fields \ {"latitude", "longitude"} : a[f] = b[f]

\* C12: on a frame whose records all hold a valid pair (its own output, for
\* instance) neither collaborator is called, no stage changes a record, and
\* the frame returned has the same records in the same order with the same
\* coordinates, as numbers.
C12_ResolvedFrameUnchanged ==
    ResolvedValid(input_df) =>
        /\ ~asked.run.called /\ ~asked.sample.called
        /\ pc # "raised"
        /\ Len(all_df) = Len(input_df)
        /\ \A i \in 1..Len(all_df) :
              /\ SameButCoords(all_df[i], input_df[i])
              /\ IF pc = "done"
                 THEN /\ all_df[i].latitude = to_numeric(input_df[i].latitude)
                      /\ all_df[i].longitude = to_numeric(input_df[i].longitude)
                 ELSE /\ all_df[i].latitude = input_df[i].latitude
                      /\ all_df[i].longitude = input_df[i].longitude

\* a frame of two resolved records, one of them with floats, was returned
C12_Witness ==
    /\ pc = "done" /\ ResolvedValid(input_df) /\ Len(input_df) >= 2
    /\ input_df[1].latitude = NumCoords.latitude
    /\ input_df[2].latitude = TextCoords.latitude
    /\ all_df[1].latitude = all_df[2].latitude

\* the record has neither coordinate and its location text parses to a pair
\* the validator accepts
ParsesToValid(row) ==
    /\ isna(row.latitude) /\ isna(row.longitude)
    /\ _valid_lat_lon(_extract_lat_lon_from_text(row.geographic_location)[1],
                      _extract_lat_lon_from_text(row.geographic_location)[2]).value

\* C13: a record without latitude and longitude after the two lookups whose
\* location text parses to a pair within range gets exactly the parsed pair
\* in the parse stage, and the output holds it once with that pair.
C13_ParsedPairRetained ==
    /\ [][pc = "parse_stage" =>
            \A i \in 1..Len(all_df) :
                ParsesToValid(all_df[i]) =>
                    /\ Len(all_df') = Len(all_df)
                    /\ <<all_df'[i].latitude, all_df'[i].longitude>>
                         = _extract_lat_lon_from_text(all_df[i].geographic_location)
                    /\ SameButCoords(all_df'[i], all_df[i])]_vars
    /\ [][pc = "validate" =>
            \A i \in 1..Len(all_df) :
                _valid_lat_lon(all_df[i].latitude, all_df[i].longitude).value =>
                    \E j \in 1..Len(all_df') :
                        /\ all_df'[j].prev = i
                        /\ all_df'[j].latitude = to_numeric(all_df[i].latitude)
                        /\ all_df'[j].longitude = to_numeric(all_df[i].longitude)
                        /\ SameButCoords(all_df'[j], all_df[i])
                        /\ \A k \in 1..Len(all_df') : all_df'[k].prev = i => k = j]_vars

\* "23.5S 45.2W" on a record that no lookup resolved: -23.5 and -45.2 returned
C13_Witness ==
    /\ pc = "done" /\ asked.run.called /\ asked.sample.called
    /\ \E o \in Rows(all_df) :
          /\ input_df[o.id].geographic_location = GoodText
          /\ isna(input_df[o.id].latitude) /\ isna(input_df[o.id].longitude)
          /\ NothingFrom(asked.run) /\ NothingFrom(asked.sample)
          /\ o.latitude = Num(-235 * (Scale \div 10))
          /\ o.longitude = Num(-452 * (Scale \div 10))

\* both coordinates present, and not a pair the validator accepts
PresentInvalid(row) ==
    /\ ~isna(row.latitude) /\ ~isna(row.longitude)
    /\ ~_valid_lat_lon(row.latitude, row.longitude).value

\* C14: a record that enters with both coordinates present but invalid (out
\* of range or not a number) keeps the two cells it came with through the
\* lookups and the text parse, and is absent from the output.
C14_InvalidNeverRepaired ==
    \A r \in Rows(input_df) :
        PresentInvalid(r) =>
            \A o \in Rows(all_df) :
                o.id = r.id =>
                    /\ pc # "done"
                    /\ o.latitude = r.latitude /\ o.longitude = r.longitude

\* a latitude of 95 beside a location text that parses to a valid pair, on a
\* record whose sample the per-sample lookup answered with a table
C14_Witness ==
    /\ pc = "done" /\ all_df # <<>>
    /\ \E k \in 1..Len(asked.sample.kinds) : asked.sample.kinds[k] = "table"
    /\ \E r \in Rows(input_df) :
          /\ r.latitude = BadCoords.latitude /\ r.longitude = BadCoords.longitude
          /\ r.geographic_location = GoodText /\ r.Sample # NoId

-----------------------------------------------------------------------------
(* run_cmd: a shell command with immediate retries *)

\* most attempts asked for
MaxRetries == 3
\* def run_cmd(cmd, retries=3)
DefaultRetries == 3
\* what subprocess.call can return: success, failures, death by a signal
ExitCodes == {0, 1, 2, 127, -9}

GeoIdle ==
    /\ text = Idle /\ shape = Idle /\ parsed = Idle /\ via = "" /\ result = Idle
    /\ lat_in = Idle /\ lon_in = Idle
    /\ all_df = <<>> /\ input_df = <<>> /\ asked = Idle

\* last = 1, and the loop variable before the first iteration
CmdInit ==
    /\ pc = "c_loop"
    /\ retries \in 0..MaxRetries
    /\ attempt = 1 /\ last = 1 /\ calls = <<>> /\ ret = Idle
    /\ GeoIdle /\ MainIdle /\ AsmIdle /\ QcIdle /\ ChIdle /\ FpIdle

\* the loop body going on to the next iteration whatever the exit code
CmdAttemptNoStop ==
    /\ pc = "c_loop" /\ attempt <= retries
    /\ \E code \in ExitCodes :
          /\ last' = code
          /\ calls' = Append(calls, code)
          /\ attempt' = attempt + 1
          /\ UNCHANGED <<pc, ret>>
    /\ UNCHANGED <<retries, geo, mainv, asmv, qcv, chv, fpv>>

\* one iteration: the call, return 0 on success, else the retry message
CmdAttempt ==
    /\ pc = "c_loop" /\ attempt <= retries
    /\ \E code \in ExitCodes :
          /\ last' = code
          /\ calls' = Append(calls, code)
          /\ IF code = 0
             THEN /\ ret' = 0
                  /\ pc' = "c_done"
                  /\ UNCHANGED attempt
             ELSE /\ attempt' = attempt + 1
                  /\ UNCHANGED <<pc, ret>>
    /\ UNCHANGED <<retries, geo, mainv, asmv, qcv, chv, fpv>>

\* the loop is exhausted: return last
CmdReturn ==
    /\ pc = "c_loop" /\ attempt > retries
    /\ ret' = last
    /\ pc' = "c_done"
    /\ UNCHANGED <<retries, attempt, last, calls, geo, mainv, asmv, qcv, chv, fpv>>

CmdNext == CmdAttempt \/ CmdReturn
SpecCmd == CmdInit /\ [][CmdNext]_vars

\* C16: run_cmd invokes the command at most `retries` times, one attempt per
\* loop iteration; only the last invocation can have exited 0, and then 0 is
\* returned; after `retries` failed attempts the exit code of the last one
\* is returned (1 when no attempt was asked for).
C16_RetriesThenLastCode ==
    pc \in {"c_loop", "c_done"} =>
        /\ Len(calls) <= retries
        /\ \A k \in 1..(Len(calls) - 1) : calls[k] # 0
        /\ pc = "c_loop" => Len(calls) = attempt - 1
        /\ pc = "c_done" =>
              IF calls # <<>> /\ calls[Len(calls)] = 0
              THEN ret = 0
              ELSE /\ Len(calls) = retries
                   /\ ret = IF calls = <<>> THEN 1 ELSE calls[Len(calls)]
                   /\ ret # 0

\* the default three attempts, all failed, the last one killed by a signal
C16_Witness ==
    /\ pc = "c_done" /\ retries = DefaultRetries
    /\ calls = <<1, 2, -9>> /\ ret = -9

-----------------------------------------------------------------------------
(* main of the mangrove fetcher: fetch, unify, resolve coordinates, export *)

\* a file: absent, of size zero, or a table (a header line and rows)
Absent == [exists |-> FALSE, header |-> FALSE, rows |-> <<>>]
EmptyFile == [exists |-> TRUE, header |-> FALSE, rows |-> <<>>]
TableFile(rows) == [exists |-> TRUE, header |-> TRUE, rows |-> rows]
\* p.exists() and p.stat().st_size > 0
HasContent(f) == f.exists /\ f.header

\* str.upper() and the substring test
UpperStr(q) == [i \in 1..Len(q) |-> Upper(q[i])]
StrContains(q, sub) ==
    \E i \in 1..(Len(q) - Len(sub) + 1) : SubSeq(q, i, i + Len(sub) - 1) = sub
\* (cell or ""), fillna("")
CellText(x) == IF isna(x) THEN <<>> ELSE x.s
WGS == <<"W", "G", "S">>
ILLUMINA == <<"I", "L", "L", "U", "M", "I", "N", "A">>
\* "WGS" in LibraryStrategy.upper() and "ILLUMINA" in Platform.upper()
ok(row) ==
    /\ StrContains(UpperStr(CellText(row.LibraryStrategy)), WGS)
    /\ StrContains(UpperStr(CellText(row.Platform)), ILLUMINA)

\* the mask testing the platform alone
MaskPlatformOnly(row) ==
    StrContains(UpperStr(CellText(row.Platform)), ILLUMINA)

\* the final WGS + ILLUMINA mask of main, over the unified table
mask(row) ==
    /\ StrContains(UpperStr(CellText(row.LibraryStrategy)), WGS)
    /\ StrContains(UpperStr(CellText(row.Platform)), ILLUMINA)

\* postfilter_wgs_illumina_csv(csv_in, csv_out): the new content of csv_out
postfilter_wgs_illumina_csv(csv_in, csv_out) ==
    IF ~HasContent(csv_in) THEN csv_out
    ELSE IF csv_in.rows = <<>> THEN EmptyFile
    ELSE TableFile(SelectSeq(csv_in.rows, ok))

\* Series.astype(str) of the Run column: a missing run becomes the text "nan"
AsStr(run) == IF run = NoId THEN "nan" ELSE run
\* drop_duplicates keeping the last row of each run
RECURSIVE DropKeepLast(_)
DropKeepLast(rows) ==
    IF rows = <<>> THEN <<>>
    ELSE LET rest == DropKeepLast(Tail(rows))
         IN  IF \E i \in 1..Len(rest) : rest[i].Run = Head(rows).Run
             THEN rest
             ELSE <<Head(rows)>> \o rest

\* drop_duplicates(subset=["Run"], keep="first")
RECURSIVE drop_duplicates(_)
drop_duplicates(rows) ==
    IF rows = <<>> THEN <<>>
    ELSE LET init == drop_duplicates(SubSeq(rows, 1, Len(rows) - 1))
         IN  IF \E i \in 1..Len(init) : init[i].Run = rows[Len(rows)].Run
             THEN init
             ELSE Append(init, rows[Len(rows)])

\* the frame main hands to fill_and_filter_geo: the concatenated tables, the
\* WGS + ILLUMINA mask, Run as text, one row per Run (positions numbered)
Unified(tables) ==
    LET kept == SelectSeq(Concat(tables), mask)
        asstr == [i \in 1..Len(kept) |-> [kept[i] EXCEPT !.Run = AsStr(kept[i].Run)]]
        dedup == drop_duplicates(asstr)
    IN  [i \in 1..Len(dedup) |-> [dedup[i] EXCEPT !.id = i, !.prev = i]]

\* a row of a source table
SourceRow(run, sample, strategy, platform, c, loc, source) ==
    [Run |-> run, Sample |-> sample,
     LibraryStrategy |-> strategy, Platform |-> platform,
     latitude |-> c.latitude, longitude |-> c.longitude, geographic_location |-> loc,
     source |-> source, id |-> 0, prev |-> 0]

\* rows the ENA search returns: one with coordinates, one with a location
\* text only, one of another library strategy
EnaRows ==
    [a |-> SourceRow("R1", "S1", T(WGS), T(ILLUMINA), TextCoords, NaN, "ENA"),
     b |-> SourceRow("R2", "S1", T(<<"w", "g", "s">>), T(ILLUMINA), NoCoords, GoodText, "ENA"),
     c |-> SourceRow("R3", NoId, T(<<"R", "N", "A">>), T(ILLUMINA), TextCoords, NaN, "ENA")]
\* rows of an SRA RunInfo table (it has no coordinate column): a run ENA
\* reports too, another run, a run of another platform
SraRows ==
    [a |-> SourceRow("R1", "S1", T(WGS), T(ILLUMINA), NoCoords, NaN, "SRA"),
     b |-> SourceRow("R4", "S1", T(WGS), T(ILLUMINA), NoCoords, NaN, "SRA"),
     c |-> SourceRow("R5", NoId, T(WGS), NaN, NoCoords, NaN, "SRA")]
EnaTables == {<<>>, <<EnaRows.a>>, <<EnaRows.a, EnaRows.b>>, <<EnaRows.c>>}
SraTables == {<<>>, <<SraRows.a>>, <<SraRows.a, SraRows.b>>, <<SraRows.c>>}

\* the metadata and output directories before main starts: new, or as an
\* earlier run left them
FreshDirs ==
    [ena_tsv |-> Absent, sra_raw |-> Absent, sra_csv |-> Absent,
     eco_tsv |-> Absent, unified_tsv |-> Absent, summary_tsv |-> Absent]
EarlierOutput == <<[EnaRows.a EXCEPT !.id = 1, !.prev = 1]>>
EarlierRunDirs ==
    [ena_tsv |-> TableFile(<<EnaRows.a>>),
     sra_raw |-> TableFile(<<SraRows.b, SraRows.c>>), sra_csv |-> TableFile(<<SraRows.b>>),
     eco_tsv |-> TableFile(EarlierOutput), unified_tsv |-> TableFile(EarlierOutput),
     summary_tsv |-> TableFile(<<[source |-> "ENA", n_runs |-> 1]>>)]

\* run_cmd as a function of the exit codes its attempts would give
RECURSIVE RunFrom(_, _, _, _)
RunFrom(codes, i, n, code) ==
    IF i > n THEN [ret |-> code, calls |-> SubSeq(codes, 1, n)]
    ELSE IF codes[i] = 0 THEN [ret |-> 0, calls |-> SubSeq(codes, 1, i)]
    ELSE RunFrom(codes, i + 1, n, codes[i])
run_cmd(codes, n) == RunFrom(codes, 1, n, 1)

\* the body of an answer: of size zero, or a table
EnaBodies == {EmptyFile} \cup {TableFile(t) : t \in EnaTables}
SraBodies == {EmptyFile} \cup {TableFile(t) : t \in SraTables}

\* groupby(["ecosystem", "source"])["Run"].nunique(), sorted
CountSource(df, src) == Cardinality({i \in 1..Len(df) : df[i].source = src})
Summary(df) ==
    SelectSeq(<<[source |-> "ENA", n_runs |-> CountSource(df, "ENA")],
                [source |-> "SRA", n_runs |-> CountSource(df, "SRA")]>>,
              LAMBDA g : g.n_runs > 0)

MainInit ==
    /\ pc = "m_ena"
    /\ have_ed \in BOOLEAN
    /\ fallback = "not_called"
    /\ fs \in {FreshDirs, EarlierRunDirs}
    /\ ena_paths = <<>> /\ sra_paths = <<>> /\ frames = <<>>
    /\ all_df = <<>> /\ input_df = <<>>
    /\ asked = [run |-> NotAsked, sample |-> NotAsked]
    /\ text = Idle /\ shape = Idle /\ parsed = Idle /\ via = "" /\ result = Idle
    /\ lat_in = Idle /\ lon_in = Idle
    /\ retries = DefaultRetries /\ attempt = 0 /\ last = 0 /\ calls = <<>> /\ ret = Idle
    /\ AsmIdle /\ QcIdle /\ ChIdle /\ FpIdle

\* try: ena_paths.append(fetch_ena_mangrove()); the request raises, or its
\* body is written to ena_mangrove.tsv
FetchEna ==
    /\ pc = "m_ena"
    /\ \/ UNCHANGED <<fs, ena_paths>>
       \/ \E body \in EnaBodies :
             /\ fs' = [fs EXCEPT !.ena_tsv = body]
             /\ ena_paths' = <<"ena_tsv">>
    /\ pc' = "m_sra"
    /\ UNCHANGED <<have_ed, fallback, sra_paths, frames, geo, cmdv, asmv, qcv, chv, fpv>>

\* fetch_sra_mangrove: EDirect through run_cmd (the redirection rewrites the
\* raw file at every attempt), the RunInfo fallback when needed, the post-filter
FetchSraEdirect ==
    /\ pc = "m_sra" /\ have_ed
    /\ \E codes \in [1..DefaultRetries -> {0, 1}], out \in SraBodies,
          fb \in {Absent} \cup (SraBodies \ {EmptyFile}) :
          LET r == run_cmd(codes, DefaultRetries)
              need_fallback == r.ret # 0 \/ ~HasContent(out)
              raw == IF need_fallback /\ fb.exists THEN fb ELSE out
          IN  /\ need_fallback \/ fb = Absent
              /\ calls' = r.calls /\ ret' = r.ret
              /\ last' = r.calls[Len(r.calls)]
              /\ fs' = [fs EXCEPT !.sra_raw = raw,
                                  !.sra_csv = postfilter_wgs_illumina_csv(raw, fs.sra_csv)]
              /\ fallback' = IF ~need_fallback THEN "not_called"
                              ELSE IF fb.exists THEN "ok" ELSE "failed"
    /\ sra_paths' = <<"sra_csv">>
    /\ pc' = "m_unify"
    /\ UNCHANGED <<have_ed, ena_paths, frames, geo, retries, attempt, asmv, qcv, chv, fpv>>

\* without EDirect: the RunInfo fallback alone, post-filtered when it answered
FetchSraFallback ==
    /\ pc = "m_sra" /\ ~have_ed
    /\ \/ fallback' = "failed" /\ UNCHANGED <<fs, sra_paths>>
       \/ \E fb \in SraBodies \ {EmptyFile} :
             /\ fs' = [fs EXCEPT !.sra_raw = fb,
                                 !.sra_csv = postfilter_wgs_illumina_csv(fb, fs.sra_csv)]
             /\ sra_paths' = <<"sra_csv">>
             /\ fallback' = "ok"
    /\ pc' = "m_unify"
    /\ UNCHANGED <<have_ed, ena_paths, frames, geo, cmdv, asmv, qcv, chv, fpv>>

\* the tables read from the paths that exist with a size above zero
ReadFrames(paths, files, src) ==
    LET with == SelectSeq(paths, LAMBDA p : HasContent(files[p]))
    IN  [k \in 1..Len(with) |->
            [i \in 1..Len(files[with[k]].rows) |->
                [files[with[k]].rows[i] EXCEPT !.source = src]]]

\* NORMALIZAR Y UNIFICAR: return when there is no table, else concatenate,
\* filter, dedupe and enter fill_and_filter_geo
Unify ==
    /\ pc = "m_unify"
    /\ frames' = ReadFrames(ena_paths, fs, "ENA") \o ReadFrames(sra_paths, fs, "SRA")
    /\ IF frames' = <<>>
       THEN /\ pc' = "m_done"
            /\ UNCHANGED <<all_df, input_df>>
       ELSE /\ all_df' = Unified(frames')
            /\ input_df' = all_df'
            /\ pc' = "run_stage"
    /\ UNCHANGED <<have_ed, fallback, fs, ena_paths, sra_paths, cmdv, asmv, qcv, chv, fpv>>
    /\ UNCHANGED <<text, shape, parsed, via, result, lat_in, lon_in, asked>>

\* after fill_and_filter_geo: empty files when no record is left, else the
\* per-ecosystem file, the unified file and the summary
Export ==
    /\ pc = "done"
    /\ fs' = IF all_df = <<>>
             THEN [fs EXCEPT !.eco_tsv = EmptyFile, !.unified_tsv = EmptyFile]
             ELSE [fs EXCEPT !.eco_tsv = TableFile(all_df),
                             !.unified_tsv = TableFile(all_df),
                             !.summary_tsv = TableFile(Summary(all_df))]
    /\ pc' = "m_done"
    /\ UNCHANGED <<have_ed, fallback, ena_paths, sra_paths, frames, geo, cmdv, asmv, qcv, chv, fpv>>

MainNext ==
    \/ FetchEna \/ FetchSraEdirect \/ FetchSraFallback \/ Unify
    \/ RunStage \/ SampleStage \/ ParseStage \/ ValidateStage
    \/ Export
SpecMain == MainInit /\ [][MainNext]_vars

\* C15 as claimed: when no table was read for unification main ends without
\* raising and the per-ecosystem file and the unified file exist, empty.
C15_Original ==
    (pc = "m_done" /\ frames = <<>>) =>
        /\ fs.eco_tsv = EmptyFile
        /\ fs.unified_tsv = EmptyFile

\* ---------------------------------------------------------------------
\* The serial assembly script, scripts/06_assembly_serial.py
\* ---------------------------------------------------------------------

\* the states of a <sample>_assembled directory: not there, left by an
\* earlier run, left by an assembler of this run that failed, or written
\* by an assembler of this run that ended with exit code 0
DirStates == {"absent", "old", "partial", "new"}
Samples == {"A", "B", "C"}

\* one discovered pair; size stands for size_sum(r1, r2)
Pair(s, lane, size) ==
    [sample |-> s, r1 |-> <<s, lane, "R1">>, r2 |-> <<s, lane, "R2">>, size |-> size]

\* the lists find_pairs can return: sample directories in sorted order,
\* the R1 files of one directory in sorted order, each with its mate;
\* sample A may hold two pairs
PairSlots == <<{<<>>, <<Pair("A", 1, 1)>>, <<Pair("A", 1, 2)>>},
               {<<>>, <<Pair("A", 2, 1)>>},
               {<<>>, <<Pair("B", 1, 1)>>, <<Pair("B", 1, 2)>>},
               {<<>>, <<Pair("C", 1, 1)>>, <<Pair("C", 1, 2)>>}>>
PairLists ==
    {a \o b \o c \o d : a \in PairSlots[1], b \in PairSlots[2],
                        c \in PairSlots[3], d \in PairSlots[4]}

\* the insertion putting a sample before those of its own size
RECURSIVE InsertBeforeTies(_, _)
InsertBeforeTies(sorted, x) ==
    IF sorted = <<>> THEN <<x>>
    ELSE IF Head(sorted).size < x.size
         THEN <<Head(sorted)>> \o InsertBeforeTies(Tail(sorted), x)
         ELSE <<x>> \o sorted

\* sorted(info, key=size): a stable insertion sort
RECURSIVE InsertBySize(_, _)
InsertBySize(sorted, x) ==
    IF sorted = <<>> THEN <<x>>
    ELSE IF Head(sorted).size <= x.size
         THEN <<Head(sorted)>> \o InsertBySize(Tail(sorted), x)
         ELSE <<x>> \o sorted
RECURSIVE SortBySize(_)
SortBySize(info) ==
    IF info = <<>> THEN <<>>
    ELSE InsertBySize(SortBySize(SubSeq(info, 1, Len(info) - 1)), info[Len(info)])

\* obtener_muestras_pendientes: the samples of the pairs whose output
\* directory does not exist, by ascending size
NoOutfolder(dirs, p) == dirs[p.sample] = "absent"
SampleNames(info) == [i \in 1..Len(info) |-> info[i].sample]
obtener_muestras_pendientes(ps, dirs) ==
    SampleNames(SortBySize(SelectSeq(ps, LAMBDA p : NoOutfolder(dirs, p))))

\* idx = {s: (r1, r2) for s, r1, r2 in pairs}: the last pair of a sample
idx(ps, s) ==
    LET hits == {i \in 1..Len(ps) : ps[i].sample = s}
        last_i == CHOOSE i \in hits : \A j \in hits : j <= i
    IN  <<ps[last_i].r1, ps[last_i].r2>>

\* what can happen inside one assemble_one call: whether rmtree raises, and
\* how the assembler ends (no binary or unsupported assembler, a non-zero
\* exit code with or without an output directory left behind, exit code 0)
RmOutcomes == {"removed", "rm_raises"}
RunOutcomes == {"not_run", "failed", "failed_dir", "ok"}

\* the assembler part of assemble_one, lines 206-262
RunAssembler(sample, run) ==
    CASE run = "not_run"    -> [res |-> <<sample, "ERROR">>, dir |-> "absent"]
      [] run = "failed"     -> [res |-> <<sample, "ERROR">>, dir |-> "absent"]
      [] run = "failed_dir" -> [res |-> <<sample, "ERROR">>, dir |-> "partial"]
      [] run = "ok"         -> [res |-> <<sample, "OK">>, dir |-> "new"]

\* assemble_one: the result tuple (sample, status) and the directory after
assemble_one(sample, dir, ow, rm, run) ==
    IF dir # "absent"
    THEN IF ow
         THEN IF rm = "rm_raises"
              THEN [res |-> <<sample, "ERROR">>, dir |-> dir]
              ELSE RunAssembler(sample, run)
         ELSE [res |-> <<sample, "SKIPPED">>, dir |-> dir]
    ELSE RunAssembler(sample, run)

AsmInit ==
    /\ pc = "a_start"
    /\ overwrite \in BOOLEAN
    /\ trim_dir \in BOOLEAN
    /\ pairs \in PairLists
    /\ outdirs \in [Samples -> {"absent", "old"}]
    /\ outdirs0 = outdirs
    /\ pendientes = <<>> /\ resultados = <<>> /\ resumen = Idle /\ rc = Idle
    /\ GeoIdle /\ CmdIdle /\ MainIdle /\ QcIdle /\ ChIdle /\ FpIdle

\* main up to the loop: the two early returns, then the pending samples
AsmStart ==
    /\ pc = "a_start"
    /\ IF ~trim_dir
       THEN rc' = 2 /\ pc' = "a_done" /\ UNCHANGED pendientes
       ELSE IF pairs = <<>>
            THEN rc' = 3 /\ pc' = "a_done" /\ UNCHANGED pendientes
            ELSE /\ pendientes' = obtener_muestras_pendientes(pairs, outdirs)
                 /\ pc' = "a_loop"
                 /\ UNCHANGED rc
    /\ UNCHANGED <<overwrite, trim_dir, pairs, outdirs, outdirs0, resultados, resumen>>
    /\ UNCHANGED <<geo, cmdv, mainv, qcv, chv, fpv>>

\* one turn of the loop over pendientes
AsmOne ==
    /\ pc = "a_loop"
    /\ Len(resultados) < Len(pendientes)
    /\ \E rm \in RmOutcomes, run \in RunOutcomes :
          LET sample == pendientes[Len(resultados) + 1]
              out == assemble_one(sample, outdirs[sample], overwrite, rm, run)
          IN  /\ resultados' = Append(resultados, out.res)
              /\ outdirs' = [outdirs EXCEPT ![sample] = out.dir]
    /\ UNCHANGED <<pc, overwrite, trim_dir, pairs, outdirs0, pendientes, resumen, rc>>
    /\ UNCHANGED <<geo, cmdv, mainv, qcv, chv, fpv>>

\* after the loop: the summary CSV and return 0
AsmSummary ==
    /\ pc = "a_loop"
    /\ Len(resultados) = Len(pendientes)
    /\ resumen' = resultados
    /\ rc' = 0
    /\ pc' = "a_done"
    /\ UNCHANGED <<overwrite, trim_dir, pairs, outdirs, outdirs0, pendientes, resultados>>
    /\ UNCHANGED <<geo, cmdv, mainv, qcv, chv, fpv>>

AsmNext == AsmStart \/ AsmOne \/ AsmSummary
SpecAsm == AsmInit /\ [][AsmNext]_vars

\* the samples find_pairs discovered
Discovered == {pairs[i].sample : i \in 1..Len(pairs)}
\* assemble_one was called for sample s
Attempted(s) == \E i \in 1..Len(resultados) : resultados[i][1] = s

\* C17 as claimed: when the script has ended, a discovered sample whose
\* output directory existed at the start was, with --overwrite, deleted
\* and assembled again, and without --overwrite left as it was.
C17_Original ==
    (pc = "a_done" /\ rc = 0) =>
        \A s \in Discovered :
            outdirs0[s] = "old" =>
                IF overwrite
                THEN Attempted(s) /\ outdirs[s] # "old"
                ELSE outdirs[s] = "old"

\* ---------------------------------------------------------------------
\* The quality-control script, scripts/04_fastqc_parallel.py
\* ---------------------------------------------------------------------

\* the default of MAG_QC_THREADS, handed to fastqc as -t
N_THREADS_FASTQC == 12
\* the number of files at which run_fastqc flushes a batch
BatchSize == 64
\* the largest number of raw FASTQ files listed
MaxFiles == 130
\* the exit codes an external process ends with
QcExitCodes == {0, 1}

\* the command lines run() is given
FastqcCmd(files) == [cmd |-> "fastqc", t |-> N_THREADS_FASTQC, files |-> files]
MultiqcCmd == [cmd |-> "multiqc", t |-> 0, files |-> <<>>]
Exited(c, code) == [cmd |-> c.cmd, t |-> c.t, files |-> c.files, code |-> code]

QcInit ==
    /\ pc = "q_start"
    /\ raw_src \in BOOLEAN
    /\ have_fastqc \in BOOLEAN
    /\ have_multiqc \in BOOLEAN
    /\ inputs \in {0, 1, BatchSize - 1, BatchSize, BatchSize + 1,
                   2 * BatchSize, MaxFiles}
    /\ pos = 1
    /\ batch = <<>> /\ in_flight = <<>> /\ invoked = <<>> /\ qrc = Idle
    /\ GeoIdle /\ CmdIdle /\ MainIdle /\ AsmIdle /\ ChIdle /\ FpIdle

\* main up to the call of run_fastqc
QcStart ==
    /\ pc = "q_start"
    /\ IF ~raw_src
       THEN qrc' = 2 /\ pc' = "q_done"
       ELSE IF inputs = 0
            THEN qrc' = 3 /\ pc' = "q_done"
            ELSE IF ~have_fastqc
                 THEN qrc' = 0 /\ pc' = "q_done"
                 ELSE UNCHANGED qrc /\ pc' = "q_loop"
    /\ UNCHANGED <<raw_src, have_fastqc, have_multiqc, inputs, pos, batch, in_flight, invoked>>
    /\ UNCHANGED <<geo, cmdv, mainv, asmv, chv, fpv>>

\* the loop flushing a batch only once it holds more than BatchSize files
QcAddLate ==
    /\ pc = "q_loop"
    /\ pos <= inputs
    /\ batch' = Append(batch, pos)
    /\ pos' = pos + 1
    /\ IF Len(batch') > BatchSize
       THEN /\ in_flight' = Append(in_flight, FastqcCmd(batch'))
            /\ pc' = "q_wait_loop"
       ELSE UNCHANGED <<in_flight, pc>>
    /\ UNCHANGED <<raw_src, have_fastqc, have_multiqc, inputs, invoked, qrc>>
    /\ UNCHANGED <<geo, cmdv, mainv, asmv, chv, fpv>>

\* one turn of the loop of run_fastqc: the file joins the batch and a full
\* batch is handed to run(), which starts the process and waits for it
QcAdd ==
    /\ pc = "q_loop"
    /\ pos <= inputs
    /\ batch' = Append(batch, pos)
    /\ pos' = pos + 1
    /\ IF Len(batch') >= BatchSize
       THEN /\ in_flight' = Append(in_flight, FastqcCmd(batch'))
            /\ pc' = "q_wait_loop"
       ELSE UNCHANGED <<in_flight, pc>>
    /\ UNCHANGED <<raw_src, have_fastqc, have_multiqc, inputs, invoked, qrc>>
    /\ UNCHANGED <<geo, cmdv, mainv, asmv, chv, fpv>>

\* after the loop: the rest of the files, if any, as a last batch
QcTail ==
    /\ pc = "q_loop"
    /\ pos > inputs
    /\ IF batch # <<>>
       THEN /\ in_flight' = Append(in_flight, FastqcCmd(batch))
            /\ pc' = "q_wait_tail"
       ELSE UNCHANGED in_flight /\ pc' = "q_multiqc"
    /\ UNCHANGED <<raw_src, have_fastqc, have_multiqc, inputs, pos, batch, invoked, qrc>>
    /\ UNCHANGED <<geo, cmdv, mainv, asmv, chv, fpv>>

\* subprocess.call returns: the process has exited, its exit code is what
\* run() returns, and the caller goes on
QcExit ==
    /\ pc \in {"q_wait_loop", "q_wait_tail", "q_wait_mqc"}
    /\ in_flight # <<>>
    /\ \E code \in QcExitCodes :
          invoked' = Append(invoked, Exited(Head(in_flight), code))
    /\ in_flight' = Tail(in_flight)
    /\ CASE pc = "q_wait_loop" -> batch' = <<>> /\ pc' = "q_loop" /\ UNCHANGED qrc
         [] pc = "q_wait_tail" -> UNCHANGED batch /\ pc' = "q_multiqc" /\ UNCHANGED qrc
         [] pc = "q_wait_mqc"  -> UNCHANGED batch /\ pc' = "q_done" /\ qrc' = 0
    /\ UNCHANGED <<raw_src, have_fastqc, have_multiqc, inputs, pos>>
    /\ UNCHANGED <<geo, cmdv, mainv, asmv, chv, fpv>>

\* main after run_fastqc: the multiqc report when multiqc is installed
QcMultiqc ==
    /\ pc = "q_multiqc"
    /\ IF have_multiqc
       THEN /\ in_flight' = Append(in_flight, MultiqcCmd)
            /\ pc' = "q_wait_mqc"
            /\ UNCHANGED qrc
       ELSE UNCHANGED in_flight /\ pc' = "q_done" /\ qrc' = 0
    /\ UNCHANGED <<raw_src, have_fastqc, have_multiqc, inputs, pos, batch, invoked>>
    /\ UNCHANGED <<geo, cmdv, mainv, asmv, chv, fpv>>

QcNext == QcStart \/ QcAdd \/ QcTail \/ QcExit \/ QcMultiqc
SpecQc == QcInit /\ [][QcNext]_vars

\* input files have not all been handed to the tool yet
FilesRemain == pc \in {"q_loop", "q_wait_loop"} /\ pos <= inputs

\* C18 as claimed: the tool is run through a pool of workers, so while an
\* invocation is in flight, fewer than the pool size are, and files remain,
\* run_fastqc can go on to gather and start the next batch.
C18_Original ==
    (in_flight # <<>> /\ Len(in_flight) < N_THREADS_FASTQC /\ FilesRemain)
        => ENABLED (QcAdd \/ QcTail)

-----------------------------------------------------------------------------
(* Which identifiers the collaborators are asked for *)

\* the identifiers a lookup sent, over all of its requests
IdsSent(a) == {Concat(a.sent)[i] : i \in 1..Len(Concat(a.sent))}
\* the identifiers, under a key, of the records of df missing a coordinate
MissingIds(df, key) ==
    {df[i][key] : i \in {j \in 1..Len(df) : MissingCoord(df[j]) /\ df[j][key] # NoId}}
NoneMissing(df) == \A i \in 1..Len(df) : ~MissingCoord(df[i])

\* C19: the per-run lookup is asked only for runs of records missing a
\* coordinate on entry; the per-sample lookup is made only in the step after
\* the per-run merge and asked only for samples of records still missing a
\* coordinate in the merged frame; no other step asks anything; and when no
\* record is missing a coordinate on entry neither lookup is made.
C19_AskedOnlyForMissing ==
    /\ [][/\ pc = "run_stage" =>
                /\ IdsSent(asked'.run) \subseteq MissingIds(all_df, "Run")
                /\ all_df = input_df
                /\ asked'.sample = NotAsked
          /\ pc = "sample_stage" =>
                /\ IdsSent(asked'.sample) \subseteq MissingIds(all_df, "Sample")
                /\ asked'.run = asked.run
          /\ pc \notin {"run_stage", "sample_stage"} => asked' = asked]_vars
    /\ [](NoneMissing(input_df) => ~asked.run.called /\ ~asked.sample.called)

\* of two records with a sample identifier only the first missed its
\* coordinates: the per-run lookup was asked for that run alone, it filled
\* the record, and the per-sample lookup was not made
C19_Witness ==
    /\ pc = "parse_stage"
    /\ Len(input_df) = 2
    /\ input_df[1].Sample # NoId /\ input_df[2].Sample # NoId
    /\ MissingCoord(input_df[1]) /\ ~MissingCoord(input_df[2])
    /\ asked.run.sent = <<<<"R1">>>>
    /\ ~asked.sample.called

-----------------------------------------------------------------------------
(* One call of enrich_coords_from_ena_by_runs / _by_samples *)

\* the longest short list of identifiers
MaxIds == 4
\* identifiers: accessions, blank strings, and values that are not strings
IdDomain == {"R1", "R2", "", " ", NoId, NoneId}
\* a long list of distinct accessions, the first and the last cell blank
LongIds(n) ==
    [i \in 1..n |-> IF i \in {1, n} THEN " " ELSE "R" \o ToString(i)]
\* the lists and chunk sizes of a call: short lists with small chunk sizes,
\* long lists with the default chunk size
ChunkCalls ==
    {[ids |-> q, size |-> z] : q \in SeqsUpTo(IdDomain, MaxIds), z \in 1..3}
    \cup {[ids |-> LongIds(n), size |-> chunk_size] :
            n \in {chunk_size + 1, chunk_size + 2, chunk_size + 3,
                   2 * chunk_size + 3}}
\* what a request of the call can do
ChunkOutcomes ==
    {[kind |-> "raise", rows |-> <<>>, cols |-> TRUE],
     [kind |-> "table", rows |-> <<CHOOSE r \in RunAnswerRows : r.key = "R1">>, cols |-> TRUE]}

ChunkInit ==
    /\ pc = "k_call"
    /\ \E c \in ChunkCalls : run_ids = c.ids /\ chunk_arg = c.size
    /\ enr_df = Idle
    /\ GeoIdle /\ CmdIdle /\ MainIdle /\ AsmIdle /\ QcIdle /\ FpIdle

\* the call: one request per chunk, then the concatenated tables
EnrichCall ==
    /\ pc = "k_call"
    /\ \E outcomes \in [1..NChunks(Len(KeptIds(run_ids)), chunk_arg) -> ChunkOutcomes] :
          enr_df' = enrich_coords_from_ena(run_ids, chunk_arg, outcomes)
    /\ pc' = "k_done"
    /\ UNCHANGED <<run_ids, chunk_arg>>
    /\ UNCHANGED <<geo, cmdv, mainv, asmv, qcv, fpv>>

ChunkNext == EnrichCall
SpecChunk == ChunkInit /\ [][ChunkNext]_vars

\* an identifier the lookups send: a string with a character left by strip
Sendable(r) == r \notin {NoId, NoneId} /\ r \notin {"", " ", "  "}

\* C20: the batches sent are never empty and never longer than chunk_size,
\* each one but the last is full, put end to end they are the non-blank
\* string identifiers of the call in their original order (each one sent
\* once), and no blank or non-string identifier is in any of them.
C20_ConsecutiveBatches ==
    pc = "k_done" =>
        LET sent == enr_df.sent
        IN  /\ \A k \in 1..Len(sent) : Len(sent[k]) \in 1..chunk_arg
            /\ \A k \in 1..(Len(sent) - 1) : Len(sent[k]) = chunk_arg
            /\ Concat(sent) = SelectSeq(run_ids, Sendable)
            /\ \A k \in 1..Len(sent) : \A j \in 1..Len(sent[k]) : Sendable(sent[k][j])

\* the default chunk size, a list with blank cells and 401 accessions: three
\* batches, the last of one identifier
C20_Witness ==
    /\ pc = "k_done"
    /\ chunk_arg = chunk_size
    /\ Len(run_ids) > Len(Concat(enr_df.sent))
    /\ Len(enr_df.sent) = 3
    /\ Len(enr_df.sent[1]) = chunk_size
    /\ Len(enr_df.sent[3]) = 1

\* run_cmd used up its attempts, none with exit code 0
EveryAttemptFailed ==
    Len(calls) = DefaultRetries /\ \A i \in 1..Len(calls) : calls[i] # 0

\* C21 as claimed: when EDirect failed on every attempt, leaving no RunInfo
\* table behind, and the RunInfo fallback failed too, no SRA row is in the
\* table main unified.
C21_Original ==
    (/\ have_ed = TRUE /\ EveryAttemptFailed /\ fallback = "failed"
     /\ ~HasContent(fs.sra_raw)) =>
        \A i \in 1..Len(input_df) : input_df[i].source # "SRA"

-----------------------------------------------------------------------------
(* The strategy and platform filter of the outputs *)

\* the cell is a text that holds the word, whatever the case of its letters
HoldsWord(cell, word) ==
    /\ cell.t = "str"
    /\ \E i \in 1..Len(cell.s) :
          /\ i + Len(word) - 1 <= Len(cell.s)
          /\ \A j \in 1..Len(word) : Upper(cell.s[i + j - 1]) = word[j]
WgsIllumina(row) == HoldsWord(row.LibraryStrategy, WGS) /\ HoldsWord(row.Platform, ILLUMINA)
\* the rows of the tables read for unification
FrameRows == UNION {Rows(frames[k]) : k \in 1..Len(frames)}

\* w is the record read as r from one of the archives
SameSourceRow(w, r) == w.Run = r.Run /\ w.source = r.source

\* C22: every record in the per-ecosystem file and in the unified file has a
\* library strategy holding WGS and a platform holding ILLUMINA, so no
\* record read with another or a missing strategy or platform is in them.
C22_OutputsWgsIllumina ==
    /\ \A r \in Rows(fs.eco_tsv.rows) : WgsIllumina(r)
    /\ \A r \in Rows(fs.unified_tsv.rows) : WgsIllumina(r)
    /\ \A r \in FrameRows :
          ~WgsIllumina(r) =>
              /\ \A w \in Rows(fs.eco_tsv.rows) : ~SameSourceRow(w, r)
              /\ \A w \in Rows(fs.unified_tsv.rows) : ~SameSourceRow(w, r)

\* main ended: a run of another strategy was read from ENA and left out, and
\* an SRA run was written
C22_Witness ==
    /\ pc = "m_done"
    /\ \E r \in FrameRows : r.source = "ENA" /\ ~WgsIllumina(r)
    /\ \E w \in Rows(fs.unified_tsv.rows) : w.source = "SRA"
    /\ fs.eco_tsv.rows = fs.unified_tsv.rows

-----------------------------------------------------------------------------
(* The dedupe-by-Run step of main *)

\* the rows that reach the step: the concatenated tables after the mask
Concatenated == SelectSeq(Concat(frames), WgsIllumina)
\* the first row of q with the run identifier u
FirstOf(q, u) == q[CHOOSE i \in 1..Len(q) : q[i].Run = u /\ \A j \in 1..(i - 1) : q[j].Run # u]
SourceFields ==
    {"Run", "Sample", "source", "LibraryStrategy", "Platform",
     "latitude", "longitude", "geographic_location"}
SameFields(w, r) == \A f \in SourceFields : w[f] = r[f]

\* C23: once main has unified the tables, the frame handed on holds, for each
\* run identifier among the rows that reached the dedupe step, exactly one
\* record, equal to the first such row in concatenation order (the ENA row
\* when both archives report the run), and holds no other record.
C23_OneRecordPerRunFirstKept ==
    pc \notin {"m_ena", "m_sra", "m_unify"} =>
        LET cat == Concatenated
            runs == {cat[i].Run : i \in 1..Len(cat)}
        IN  /\ \A u \in runs :
                  /\ Cardinality({i \in 1..Len(input_df) : input_df[i].Run = u}) = 1
                  /\ \A i \in 1..Len(input_df) :
                        input_df[i].Run = u => SameFields(input_df[i], FirstOf(cat, u))
            /\ \A i \in 1..Len(input_df) : input_df[i].Run \in runs
            /\ \A i \in 1..Len(input_df) :
                  (\E r \in FrameRows : r.Run = input_df[i].Run /\ r.source = "ENA" /\ WgsIllumina(r))
                      => input_df[i].source = "ENA"

\* a run reported by both archives and a run reported by SRA alone: two
\* records, the first from ENA, the second from SRA
C23_Witness ==
    /\ pc = "run_stage"
    /\ \E r, q \in FrameRows : r.Run = q.Run /\ r.source = "ENA" /\ q.source = "SRA"
    /\ Len(Concatenated) > Len(input_df)
    /\ \E i, j \in 1..Len(input_df) :
          input_df[i].source = "ENA" /\ input_df[j].source = "SRA"

-----------------------------------------------------------------------------
(* The order of the assemblies *)

\* the pairs whose sample had no output directory when the script started
PendingPairs == SelectSeq(pairs, LAMBDA p : outdirs0[p.sample] = "absent")
\* the place of the i-th of them by ascending size, ties in discovery order
RankBySize(info, i) ==
    1 + Cardinality({j \in 1..Len(info) :
                        \/ info[j].size < info[i].size
                        \/ info[j].size = info[i].size /\ j < i})

\* C24: the pending list names exactly the pairs whose sample has no
\* <sample>_assembled directory, by ascending total size with ties in
\* discovery order, and main calls assemble_one in exactly that order.
C24_PendingBySizeInOrder ==
    (pc = "a_loop" \/ (pc = "a_done" /\ rc = 0)) =>
        /\ Len(pendientes) = Len(PendingPairs)
        /\ \A i \in 1..Len(PendingPairs) :
              pendientes[RankBySize(PendingPairs, i)] = PendingPairs[i].sample
        /\ \A k \in 1..Len(pendientes) : outdirs0[pendientes[k]] = "absent"
        /\ Len(resultados) <= Len(pendientes)
        /\ \A k \in 1..Len(resultados) : resultados[k][1] = pendientes[k]
        /\ pc = "a_done" => Len(resultados) = Len(pendientes)

\* three samples without a directory, the first discovered the largest and
\* the other two of one size: assembled second, third, first
C24_Witness ==
    /\ pc = "a_done" /\ rc = 0
    /\ Len(pairs) = 3
    /\ pairs[1].size > pairs[2].size /\ pairs[2].size = pairs[3].size
    /\ pendientes = <<"B", "C", "A">>
    /\ Len(resultados) = 3

\* how many results, or summary rows, are for sample s
TimesIn(q, s) == Cardinality({k \in 1..Len(q) : q[k][1] = s})

\* C25 as claimed: when the script has ended, every pending sample was
\* attempted exactly once, in the order of the pending list, and the summary
\* CSV holds exactly one row for it, in processing order, with a status
\* among OK, SKIPPED and ERROR.
C25_Original ==
    (pc = "a_done" /\ rc = 0) =>
        /\ \A k \in 1..Len(pendientes) :
              /\ TimesIn(resultados, pendientes[k]) = 1
              /\ TimesIn(resumen, pendientes[k]) = 1
        /\ resumen = resultados
        /\ \A k \in 1..Len(resumen) : resumen[k][2] \in {"OK", "SKIPPED", "ERROR"}

-----------------------------------------------------------------------------
(* The batches of run_fastqc *)

\* the fastqc command lines started so far, in order
FastqcStarted == SelectSeq(invoked \o in_flight, LAMBDA c : c.cmd = "fastqc")
FilesPassed == Concat([k \in 1..Len(FastqcStarted) |-> FastqcStarted[k].files])
\* run_fastqc has returned
FastqcReturned ==
    \/ pc \in {"q_multiqc", "q_wait_mqc"}
    \/ pc = "q_done" /\ raw_src /\ inputs > 0 /\ have_fastqc

\* C26: every fastqc invocation is given between 1 and 64 files, each but the
\* last exactly 64; the files given so far are the first input files in
\* input order, each once; and when run_fastqc has returned they are all the
\* input files, whatever the exit codes of the batches were.
C26_ConsecutiveBatchesOf64 ==
    /\ \A k \in 1..Len(FastqcStarted) : Len(FastqcStarted[k].files) \in 1..BatchSize
    /\ \A k \in 1..(Len(FastqcStarted) - 1) : Len(FastqcStarted[k].files) = BatchSize
    /\ Len(FilesPassed) <= inputs
    /\ \A i \in 1..Len(FilesPassed) : FilesPassed[i] = i
    /\ FastqcReturned => Len(FilesPassed) = inputs

\* 130 files: two batches of 64 and one of 2, the first of which exited with
\* a code other than 0
C26_Witness ==
    /\ FastqcReturned
    /\ inputs > 2 * BatchSize
    /\ Len(FastqcStarted) = 3
    /\ invoked[1].code # 0
    /\ Len(FastqcStarted[3].files) = inputs - 2 * BatchSize

-----------------------------------------------------------------------------
(* Where the two coordinates of a record come from *)

\* the pair (lat, lon) as a source gives it, compared as numbers
NumPair(lat, lon) == <<to_numeric(lat), to_numeric(lon)>>
\* the location texts a record can hold: its own and those of the answers
\* for its run and its sample
TextsFor(r) ==
    {input_df[r.id].geographic_location}
    \cup {a.geographic_location : a \in {x \in RunAnswerRows : x.key = r.Run}}
    \cup {a.geographic_location : a \in {x \in SampleAnswerRows : x.key = r.Sample}}
\* the pairs each source holds for the record r
PairsOfInput(r) == {NumPair(input_df[r.id].latitude, input_df[r.id].longitude)}
PairsOfRun(r) ==
    {NumPair(a.latitude, a.longitude) : a \in {x \in RunAnswerRows : x.key = r.Run}}
PairsOfSample(r) ==
    {NumPair(a.latitude, a.longitude) : a \in {x \in SampleAnswerRows : x.key = r.Sample}}
PairsOfParse(r) ==
    {NumPair(_extract_lat_lon_from_text(t)[1], _extract_lat_lon_from_text(t)[2]) :
        t \in TextsFor(r)}

\* C27 as claimed: the latitude and the longitude of every returned record
\* are a pair one single source holds for it (the input, the per-run lookup,
\* the per-sample lookup or the parse of a location text).
C27_Original ==
    pc = "done" =>
        \A r \in Rows(all_df) :
            <<r.latitude, r.longitude>> \in
                PairsOfInput(r) \cup PairsOfRun(r) \cup PairsOfSample(r) \cup PairsOfParse(r)

\* the pairs the stage beginning at pc offers the record old
Offered(old, stage) ==
    CASE stage = "run_stage" ->
            {<<a.latitude, a.longitude>> : a \in {x \in RunAnswerRows : x.key = old.Run}}
      [] stage = "sample_stage" ->
            {<<a.latitude, a.longitude>> : a \in {x \in SampleAnswerRows : x.key = old.Sample}}
      [] OTHER ->
            {<<_extract_lat_lon_from_text(old.geographic_location)[1],
               _extract_lat_lon_from_text(old.geographic_location)[2]>>}

\* C27, amended: the two coordinates are filled independently, but whenever a
\* record has neither as a stage begins and both as it ends, the two are a
\* pair that stage's source holds for the record (one answer row, or one
\* location text).
C27_BothMissingFilledTogether ==
    [][FillStep =>
        \A j \in 1..Len(all_df') :
            (/\ isna(all_df[all_df'[j].prev].latitude)
             /\ isna(all_df[all_df'[j].prev].longitude)
             /\ ~MissingCoord(all_df'[j]))
                => <<all_df'[j].latitude, all_df'[j].longitude>>
                       \in Offered(all_df[all_df'[j].prev], pc)]_vars

\* two records returned: the first came without coordinates and holds the
\* pair of the per-run lookup; the second came with a latitude alone and
\* holds it with the longitude of the per-sample lookup
C27_Witness ==
    /\ pc = "done"
    /\ Len(input_df) = 2 /\ Len(all_df) = 2
    /\ all_df[1].id = 1 /\ all_df[2].id = 2
    /\ isna(input_df[1].latitude) /\ isna(input_df[1].longitude)
    /\ all_df[1].latitude = Num(30 * Scale) /\ all_df[1].longitude = Num(40 * Scale)
    /\ ~isna(input_df[2].latitude) /\ isna(input_df[2].longitude)
    /\ all_df[2].latitude = to_numeric(input_df[2].latitude)
    /\ all_df[2].longitude = Num(60 * Scale)

\* C28 as claimed: whatever the lookups answered, each input record gives at
\* most one returned record, and no more records are returned than came in.
C28_Original ==
    pc = "done" =>
        /\ \A i \in 1..Len(input_df) :
              Cardinality({j \in 1..Len(all_df) : all_df[j].id = i}) <= 1
        /\ Len(all_df) <= Len(input_df)

\* ---------------------------------------------------------------------
\* find_pairs of the assembly script, on the files of one sample directory
\* ---------------------------------------------------------------------

\* a file is its name, a sequence of characters; the files of the sample
\* directory lie in one directory
FASTQ == <<".", "f", "a", "s", "t", "q", ".", "g", "z">>
FQ == <<".", "f", "q", ".", "g", "z">>
\* the characters of the names, in the order string comparison gives them
CharOrder == <<".", "1", "2", "R", "S", "_", "a", "f", "g", "q", "s", "t", "z">>
CharRank(c) == CHOOSE i \in 1..Len(CharOrder) : CharOrder[i] = c

\* how many files the sample directory may hold
MaxDirFiles == 2
NamePrefixes == {<<"S">>, <<"S", "2">>}
NameTokens == {<<"_", "R", "1">>, <<"_", "R", "2">>, <<"_", "1">>, <<"_", "2">>,
               <<"1">>, <<"2">>}
FileNames == {p \o t \o e : p \in NamePrefixes, t \in NameTokens, e \in {FASTQ, FQ}}
SampleDirs == {d \in SUBSET FileNames : Cardinality(d) <= MaxDirFiles}
\* the name of the sample directory
sample_name == "S"

\* None, where a file is expected
NoFile == <<>>

\* t1 in name
Contains(name, t) ==
    \E i \in 1..(Len(name) - Len(t) + 1) : SubSeq(name, i, i + Len(t) - 1) = t
EndsWith(name, e) ==
    Len(name) >= Len(e) /\ SubSeq(name, Len(name) - Len(e) + 1, Len(name)) = e
\* a name against the pattern *tok*ext
GlobMatch(name, patt) ==
    /\ EndsWith(name, patt[2])
    /\ Contains(SubSeq(name, 1, Len(name) - Len(patt[2])), patt[1])

R1_GLOBS_DEFAULT ==
    << <<<<"_", "R", "1">>, FASTQ>>, <<<<"_", "1">>, FASTQ>>,
       <<<<"R", "1">>, FASTQ>>, <<<<"1">>, FASTQ>>,
       <<<<"_", "R", "1">>, FQ>>, <<<<"_", "1">>, FQ>>,
       <<<<"R", "1">>, FQ>>, <<<<"1">>, FQ>> >>
R2_GLOBS ==
    << <<<<"_", "R", "2">>, FASTQ>>, <<<<"_", "2">>, FASTQ>>,
       <<<<"R", "2">>, FASTQ>>, <<<<"2">>, FASTQ>>,
       <<<<"_", "R", "2">>, FQ>>, <<<<"_", "2">>, FQ>>,
       <<<<"R", "2">>, FQ>>, <<<<"2">>, FQ>> >>
TOKEN_PAIRS ==
    << <<<<"_", "R", "1">>, <<"_", "R", "2">>>>, <<<<"_", "1">>, <<"_", "2">>>>,
       <<<<"R", "1">>, <<"R", "2">>>>, <<<<"1">>, <<"2">>>> >>

\* name.replace(t1, t2, 1), for a name that holds t1
ReplaceFirst(name, t1, t2) ==
    LET i == CHOOSE k \in 1..(Len(name) - Len(t1) + 1) :
                 /\ SubSeq(name, k, k + Len(t1) - 1) = t1
                 /\ \A m \in 1..(k - 1) : SubSeq(name, m, m + Len(t1) - 1) # t1
    IN SubSeq(name, 1, i - 1) \o t2 \o SubSeq(name, i + Len(t1), Len(name))

\* the first token pair whose replacement names a file that exists
TokenHits(r1, dir) ==
    {k \in 1..Len(TOKEN_PAIRS) :
        /\ Contains(r1, TOKEN_PAIRS[k][1])
        /\ ReplaceFirst(r1, TOKEN_PAIRS[k][1], TOKEN_PAIRS[k][2]) \in dir}
try_match_r2_by_tokens(r1, dir) ==
    IF TokenHits(r1, dir) = {} THEN NoFile
    ELSE LET k == CHOOSE h \in TokenHits(r1, dir) : \A g \in TokenHits(r1, dir) : h <= g
         IN ReplaceFirst(r1, TOKEN_PAIRS[k][1], TOKEN_PAIRS[k][2])

common_prefix_len(a, b) ==
    LET n == IF Len(a) < Len(b) THEN Len(a) ELSE Len(b)
    IN CHOOSE i \in 0..n :
           /\ SubSeq(a, 1, i) = SubSeq(b, 1, i)
           /\ (i < n => a[i + 1] # b[i + 1])

\* the first pattern of the list that a file matches
FirstGlob(f, globs) ==
    CHOOSE k \in 1..Len(globs) :
        GlobMatch(f, globs[k]) /\ \A m \in 1..(k - 1) : ~GlobMatch(f, globs[m])
R2Candidates(dir) == {f \in dir : \E k \in 1..Len(R2_GLOBS) : GlobMatch(f, R2_GLOBS[k])}
LongestPrefix(r1, dir) ==
    {f \in R2Candidates(dir) :
        \A g \in R2Candidates(dir) :
            common_prefix_len(g, r1) <= common_prefix_len(f, r1)}
\* what _best_effort_r2_in_dir may return: max takes the first of the
\* candidates with the longest common prefix; the candidates are listed
\* pattern by pattern, and within a pattern in the order the directory gives
best_effort_r2_in_dir(r1, dir) ==
    IF R2Candidates(dir) = {} THEN {NoFile}
    ELSE {f \in LongestPrefix(r1, dir) :
             \A g \in LongestPrefix(r1, dir) :
                 FirstGlob(f, R2_GLOBS) <= FirstGlob(g, R2_GLOBS)}

\* the order of sorted() on paths of one directory
PathLess(a, b) ==
    LET n == common_prefix_len(a, b)
    IN IF n = Len(a) THEN Len(b) > n
       ELSE IF n = Len(b) THEN FALSE
       ELSE CharRank(a[n + 1]) < CharRank(b[n + 1])
RECURSIVE SortedPaths(_)
SortedPaths(S) ==
    IF S = {} THEN <<>>
    ELSE LET m == CHOOSE x \in S : \A y \in S : ~PathLess(y, x)
         IN <<m>> \o SortedPaths(S \ {m})

R1Candidates(dir) ==
    SortedPaths({f \in dir : \E k \in 1..Len(R1_GLOBS_DEFAULT) :
                               GlobMatch(f, R1_GLOBS_DEFAULT[k])})

PairsInit ==
    /\ pc = "p_glob"
    /\ sample_dir \in SampleDirs
    /\ r1_candidates = Idle /\ r1_pos = 0 /\ used = {} /\ fpairs = <<>>
    /\ GeoIdle /\ CmdIdle /\ MainIdle /\ AsmIdle /\ QcIdle /\ ChIdle

\* the globs over the sample directory, sorted
PairsGlob ==
    /\ pc = "p_glob"
    /\ r1_candidates' = R1Candidates(sample_dir)
    /\ r1_pos' = 1
    /\ pc' = "p_loop"
    /\ UNCHANGED <<sample_dir, used, fpairs>>
    /\ UNCHANGED <<geo, cmdv, mainv, asmv, qcv, chv>>

\* one turn of the loop over the R1 candidates
PairsTry ==
    /\ pc = "p_loop"
    /\ r1_pos <= Len(r1_candidates)
    /\ LET r1 == r1_candidates[r1_pos]
           byTokens == try_match_r2_by_tokens(r1, sample_dir)
       IN IF r1 \in used
          THEN UNCHANGED <<used, fpairs>>
          ELSE \E r2 \in (IF byTokens # NoFile THEN {byTokens}
                          ELSE best_effort_r2_in_dir(r1, sample_dir)) :
                  IF r2 # NoFile /\ r2 \in sample_dir /\ r2 \notin used
                  THEN /\ used' = used \cup {r1, r2}
                       /\ fpairs' = Append(fpairs, <<sample_name, r1, r2>>)
                  ELSE UNCHANGED <<used, fpairs>>
    /\ r1_pos' = r1_pos + 1
    /\ UNCHANGED <<pc, sample_dir, r1_candidates>>
    /\ UNCHANGED <<geo, cmdv, mainv, asmv, qcv, chv>>

\* the loop is over: the tuples are returned
PairsReturn ==
    /\ pc = "p_loop"
    /\ r1_pos > Len(r1_candidates)
    /\ pc' = "p_done"
    /\ UNCHANGED <<sample_dir, r1_candidates, r1_pos, used, fpairs>>
    /\ UNCHANGED <<geo, cmdv, mainv, asmv, qcv, chv>>

PairsNext == PairsGlob \/ PairsTry \/ PairsReturn
SpecPairs == PairsInit /\ [][PairsNext]_vars

\* C29 as claimed: in every tuple find_pairs returns, R1 and R2 are two
\* distinct files, and no file is in more than one tuple.
C29_Original ==
    pc = "p_done" =>
        /\ \A i \in 1..Len(fpairs) : fpairs[i][2] # fpairs[i][3]
        /\ \A i, j \in 1..Len(fpairs) :
              i # j => {fpairs[i][2], fpairs[i][3]} \cap {fpairs[j][2], fpairs[j][3]} = {}

\* ---------------------------------------------------------------------
\* The assembly script run again
\* ---------------------------------------------------------------------

\* the script has ended and is started again with the same arguments: the
\* output directories and the summary CSV are as the ended run left them
AsmRerun ==
    /\ pc = "a_done"
    /\ pc' = "a_start"
    /\ outdirs0' = outdirs
    /\ pendientes' = <<>> /\ resultados' = <<>> /\ rc' = Idle
    /\ UNCHANGED <<overwrite, trim_dir, pairs, outdirs, resumen>>
    /\ UNCHANGED <<geo, cmdv, mainv, qcv, chv, fpv>>

AsmRunsNext == AsmStart \/ AsmOne \/ AsmSummary \/ AsmRerun
SpecAsmRuns == AsmInit /\ [][AsmRunsNext]_vars

\* the loop of a later run is over and the summary of the run before it is
\* still on disk
LaterRunLooped ==
    pc = "a_loop" /\ resumen # Idle /\ Len(resultados) = Len(pendientes)
\* every row the summary holds for s has the status ERROR, and there is one
EndedInError(s) ==
    /\ \E i \in 1..Len(resumen) : resumen[i][1] = s
    /\ \A i \in 1..Len(resumen) : resumen[i][1] = s => resumen[i][2] = "ERROR"

\* C30 as claimed: on the run after one in which the assembly of a sample
\* ended in ERROR the sample is pending and attempted again, and a sample of
\* the earlier summary is left out of the pending list only if that summary
\* holds an OK row for it.
C30_Original ==
    LaterRunLooped =>
        \A s \in Discovered :
            /\ EndedInError(s) =>
                  (\E i \in 1..Len(pendientes) : pendientes[i] = s) /\ Attempted(s)
            /\ (/\ \E i \in 1..Len(resumen) : resumen[i][1] = s
                /\ \A i \in 1..Len(pendientes) : pendientes[i] # s)
                   => \E i \in 1..Len(resumen) : resumen[i] = <<s, "OK">>

====
